---------------------------- MODULE Spec2Model ----------------------------
(***************************************************************************)
(* A model of the trust-and-execution core of azure-ai-cli:                *)
(*   - internal/executor: ClassifyCommand, PermissionManager, Executor     *)
(*   - cmd: the interactive session, sendInteractiveMessageWithTools and   *)
(*     the tool-enabled handleWebSearch                                    *)
(* Commands are TLA+ strings; the classifier is computed on their          *)
(* characters as the Go code computes it (TrimSpace, regexp.MatchString,   *)
(* strings.Fields).                                                        *)
(***************************************************************************)
EXTENDS Integers, Sequences, FiniteSets, TLC

(***************************************************************************)
(* Bounds of the model.                                                    *)
(***************************************************************************)
\* tool calls the model requests in one session, over all its replies
MaxToolCalls == 2
\* turns (user inputs that reach the model) in one session
MaxTurns == 1

(***************************************************************************)
(* Strings.                                                                *)
(***************************************************************************)
\* the i-th character of s, as a one-character string
Char(s, i) == SubSeq(s, i, i)

\* unicode.IsSpace / the regexp class \s, on the characters the model uses
WhiteSpace == {" ", "\t", "\n", "\r"}

RECURSIVE TrimLeft(_)
TrimLeft(s) ==
    IF Len(s) > 0 /\ Char(s, 1) \in WhiteSpace
    THEN TrimLeft(SubSeq(s, 2, Len(s)))
    ELSE s

RECURSIVE TrimRight(_)
TrimRight(s) ==
    IF Len(s) > 0 /\ Char(s, Len(s)) \in WhiteSpace
    THEN TrimRight(SubSeq(s, 1, Len(s) - 1))
    ELSE s

\* strings.TrimSpace
TrimSpace(s) == TrimRight(TrimLeft(s))

RECURSIVE WordEnd(_, _)
\* the index of the last character of the run of non-space characters
\* that starts at i (i - 1 when there is none)
WordEnd(s, i) ==
    IF i <= Len(s) /\ Char(s, i) \notin WhiteSpace
    THEN WordEnd(s, i + 1)
    ELSE i - 1

\* strings.Fields(s)[0], "" when Fields(s) is empty
FirstField(s) ==
    LET t == TrimLeft(s)
    IN  SubSeq(t, 1, WordEnd(t, 1))

(***************************************************************************)
(* Regular expressions: a pattern is a sequence of atoms                   *)
(*   [k |-> "lit",  s |-> str]      the literal str                        *)
(*   [k |-> "star", cls |-> c]      c*                                     *)
(*   [k |-> "plus", cls |-> c]      c+                                     *)
(*   [k |-> "opt",  re |-> p]       (p)?                                   *)
(*   [k |-> "alt",  alts |-> S]     (s1|s2|...) for the literals of S      *)
(* with the classes "ws" (\s), "any" (.) and "rf" ([rf]).                  *)
(***************************************************************************)
Lit(str) == [k |-> "lit", s |-> str]
Star(c) == [k |-> "star", cls |-> c]
Plus(c) == [k |-> "plus", cls |-> c]
Opt(p) == [k |-> "opt", re |-> p]
Alt(S) == [k |-> "alt", alts |-> S]

InClass(c, cls) ==
    CASE cls = "ws" -> c \in WhiteSpace
      [] cls = "any" -> c # "\n"
      [] cls = "rf" -> c \in {"r", "f"}

\* the positions reached from a position of P by reading one character of cls
StepClass(s, cls, P) ==
    {p + 1 : p \in {q \in P : q <= Len(s) /\ InClass(Char(s, q), cls)}}

RECURSIVE StarEnds(_, _, _)
StarEnds(s, cls, P) ==
    LET Q == P \cup StepClass(s, cls, P)
    IN  IF Q = P THEN P ELSE StarEnds(s, cls, Q)

LitEnds(s, str, P) ==
    {p + Len(str) : p \in {q \in P : /\ q + Len(str) - 1 <= Len(s)
                                     /\ SubSeq(s, q, q + Len(str) - 1) = str}}

RECURSIVE Ends(_, _, _)
\* the positions at which a match of re that starts at a position of P ends
Ends(re, s, P) ==
    IF Len(re) = 0 THEN P
    ELSE LET a == Head(re)
             P1 == CASE a.k = "lit" -> LitEnds(s, a.s, P)
                     [] a.k = "star" -> StarEnds(s, a.cls, P)
                     [] a.k = "plus" ->
                            StarEnds(s, a.cls, StepClass(s, a.cls, P))
                     [] a.k = "opt" -> P \cup Ends(a.re, s, P)
                     [] a.k = "alt" ->
                            UNION {LitEnds(s, x, P) : x \in a.alts}
         IN  Ends(Tail(re), s, P1)

\* regexp.MatchString of an unanchored pattern: a match may start anywhere
MatchString(re, s) == Ends(re, s, 1..(Len(s) + 1)) # {}

\* regexp.MatchString of a pattern that begins with ^
MatchStringAnchored(re, s) == Ends(re, s, {1}) # {}

(***************************************************************************)
(* internal/executor/classifier.go                                         *)
(***************************************************************************)
RiskSafe == "Safe"
RiskNeedsConfirm == "NeedsConfirm"
RiskDangerous == "Dangerous"

safeCommands ==
    {"ls", "cat", "pwd", "echo", "head", "tail", "grep", "find",
     "which", "whoami", "date", "wc", "sort", "uniq", "diff",
     "env", "printenv", "df", "du", "ps", "top", "tree",
     "file", "stat", "basename", "dirname", "realpath"}

safePatterns ==
    {<<Lit("git"), Plus("ws"),
       Alt({"status", "log", "diff", "branch", "show", "remote"})>>,
     <<Lit("npm"), Plus("ws"),
       Alt({"list", "ls", "view", "info", "outdated"})>>,
     <<Lit("pip"), Plus("ws"), Alt({"list", "show", "freeze"})>>,
     <<Lit("cargo"), Plus("ws"), Alt({"tree", "search", "check"})>>,
     <<Lit("go"), Plus("ws"), Alt({"list", "version", "env"})>>,
     <<Lit("docker"), Plus("ws"),
       Alt({"ps", "images", "inspect", "logs"})>>,
     <<Lit("kubectl"), Plus("ws"), Alt({"get", "describe", "logs"})>>}

dangerousPatterns ==
    {<<Lit("rm"), Plus("ws"),
       Opt(<<Lit("-"), Star("rf"), Plus("ws")>>), Lit("/")>>,
     <<Lit("sudo")>>,
     <<Lit("dd"), Plus("ws"), Lit("if=")>>,
     <<Lit("mkfs")>>,
     <<Lit(":(){")>>,
     <<Lit("curl"), Star("any"), Lit("|"), Star("ws"),
       Alt({"sh", "bash", "zsh"})>>,
     <<Lit("wget"), Star("any"), Lit("|"), Star("ws"),
       Alt({"sh", "bash", "zsh"})>>,
     <<Lit(">"), Star("ws"), Lit("/dev/sd")>>,
     <<Lit("chmod"), Star("any"), Lit("777")>>,
     <<Lit("chown"), Star("any"), Lit("-R"), Plus("ws")>>,
     <<Lit("eval"), Star("any"), Lit("$")>>}

MatchesDangerous(cmd) == \E p \in dangerousPatterns : MatchString(p, cmd)

MatchesSafePattern(cmd) ==
    \E p \in safePatterns : MatchStringAnchored(p, cmd)

\* variant: the safe list is consulted before the dangerous patterns
ClassifyCommandSafeFirst(c) ==
    LET cmd == TrimSpace(c)
    IN  IF cmd = "" THEN RiskDangerous
        ELSE IF FirstField(cmd) = "" THEN RiskDangerous
        ELSE IF FirstField(cmd) \in safeCommands THEN RiskSafe
        ELSE IF MatchesSafePattern(cmd) THEN RiskSafe
        ELSE IF MatchesDangerous(cmd) THEN RiskDangerous
        ELSE RiskNeedsConfirm

\* variant: a command no list knows is Safe
ClassifyCommandDefaultSafe(c) ==
    LET cmd == TrimSpace(c)
    IN  IF cmd = "" THEN RiskDangerous
        ELSE IF MatchesDangerous(cmd) THEN RiskDangerous
        ELSE IF FirstField(cmd) = "" THEN RiskDangerous
        ELSE IF FirstField(cmd) \in safeCommands THEN RiskSafe
        ELSE IF MatchesSafePattern(cmd) THEN RiskSafe
        ELSE RiskSafe

\* variant: the whole command, not its first word, is looked up in the
\* safe list
ClassifyCommandWholeCommand(c) ==
    LET cmd == TrimSpace(c)
    IN  IF cmd = "" THEN RiskDangerous
        ELSE IF MatchesDangerous(cmd) THEN RiskDangerous
        ELSE IF FirstField(cmd) = "" THEN RiskDangerous
        ELSE IF cmd \in safeCommands THEN RiskSafe
        ELSE IF MatchesSafePattern(cmd) THEN RiskSafe
        ELSE RiskNeedsConfirm

\* variant: a command without a first word needs confirmation
ClassifyCommandEmptyNeedsConfirm(c) ==
    LET cmd == TrimSpace(c)
    IN  IF cmd = "" THEN RiskNeedsConfirm
        ELSE IF MatchesDangerous(cmd) THEN RiskDangerous
        ELSE IF FirstField(cmd) = "" THEN RiskNeedsConfirm
        ELSE IF FirstField(cmd) \in safeCommands THEN RiskSafe
        ELSE IF MatchesSafePattern(cmd) THEN RiskSafe
        ELSE RiskNeedsConfirm

ClassifyCommand(c) ==
    LET cmd == TrimSpace(c)
    IN  IF cmd = "" THEN RiskDangerous
        ELSE IF MatchesDangerous(cmd) THEN RiskDangerous
        ELSE IF FirstField(cmd) = "" THEN RiskDangerous
        ELSE IF FirstField(cmd) \in safeCommands THEN RiskSafe
        ELSE IF MatchesSafePattern(cmd) THEN RiskSafe
        ELSE RiskNeedsConfirm

(***************************************************************************)
(* The commands of the model, and ClassifyCommand tabulated on them (the   *)
(* classifier is a pure function: the table is computed once).             *)
(***************************************************************************)
\* the commands a client passes to the PermissionManager
PolicyCommands ==
    {"", "ls -la", " ls -la", "ls -la ", "ls  -la", "git status",
     "git commit -m x", "npm install express", "sudo rm -rf /",
     "cat x | sudo tee y"}

\* the commands the model asks for in a session: one Safe, one
\* NeedsConfirm, one Dangerous
SessionCommands == {"ls -la", "git commit -m x", "sudo rm -rf /"}

RiskTable ==
    [c \in PolicyCommands \cup SessionCommands |-> ClassifyCommand(c)]

\* ClassifyCommand(cmd)
Risk(cmd) ==
    IF cmd \in DOMAIN RiskTable THEN RiskTable[cmd] ELSE ClassifyCommand(cmd)


(***************************************************************************)
(* State.                                                                  *)
(***************************************************************************)
VARIABLES
    \* PermissionManager
    alwaysAllow,        \* the keys of the alwaysAllow map
    dangerousEnabled,
    autoAllowReads,
    \* history: the commands passed to AddToAllowlist since the last
    \* ClearAllowlist (since construction when there was none)
    approved,
    \* history: the last PermissionManager method a client called, its
    \* argument and what it returned
    pmLast,
    \* InteractiveSession
    messages,           \* s.messages
    pc,                 \* "idle", "awaitModel" or "processing"
    turnKind,           \* the caller of sendInteractiveMessageWithTools:
                        \* "chat" (executor) or "web" (handleWebSearch)
    toolCalls,          \* the tool calls of the reply being processed
    callIdx,            \* the index of the next tool call to process
    turns,              \* turns started in the session
    calls,              \* tool calls received in the session
    \* history
    preTurn,            \* s.messages when the current turn began
    roundBase,          \* Len(messages) after the round's assistant message
    roundLog,           \* what was done for each call of the round so far
    \* history: the last call of ClassifyCommand and what it returned
    classified,
    \* history: the last call of Executor.Execute and what it returned
    execLast,
    \* concurrent callers of one PermissionManager
    mu,                 \* pm.mu: the holder of the write lock, the holders
                        \* of the read lock
    callers,            \* each caller's method, argument, position, result
    \* one Execute call followed in time: the clock, the shell process, the
    \* context, the output pipe, the result
    run,
    \* history: the last call of AskCommandConfirmation, the line the user
    \* typed and what it returned
    confirmLast,
    \* a search client and the keys of its configuration
    search,
    \* one call of sendInteractiveMessageWithTools followed through its
    \* rounds
    loop,
    \* a Spinner and the goroutines that use it
    spinner,
    \* a Config: the key rotators of the search providers and the legacy
    \* fields
    config

pmVars == <<alwaysAllow, dangerousEnabled, autoAllowReads>>

sessionVars ==
    <<messages, pc, turnKind, toolCalls, callIdx, turns, calls,
      preTurn, roundBase, roundLog>>

clientVars == <<run, confirmLast, search, loop, spinner, config>>

unitVars == <<classified, execLast, mu, callers, clientVars>>

vars == <<pmVars, approved, pmLast, sessionVars, unitVars>>

(***************************************************************************)
(* PermissionManager                                                       *)
(***************************************************************************)
Decision(a, n, r) == [allowed |-> a, needsConfirm |-> n, reason |-> r]

ReasonApproved == "Previously approved by user"
ReasonSafe == "Safe read-only command"
ReasonNeedsConfirm == "Needs confirmation"
ReasonModify == "Command may modify system state"
ReasonDangerousConfirm == "Dangerous command (requires explicit confirmation)"
ReasonDangerousBlocked ==
    "Dangerous command blocked (use /allow-dangerous to enable)"
ReasonUnknown == "Unknown command type"

\* variant: a Safe command with autoAllowReads off is allowed and confirmed
CheckPermissionSafeAllowedAndConfirm(cmd) ==
    IF cmd \in alwaysAllow
    THEN Decision(TRUE, FALSE, ReasonApproved)
    ELSE LET risk == Risk(cmd)
         IN  CASE risk = RiskSafe ->
                    IF autoAllowReads
                    THEN Decision(TRUE, FALSE, ReasonSafe)
                    ELSE Decision(TRUE, TRUE, ReasonNeedsConfirm)
               [] risk = RiskNeedsConfirm ->
                    Decision(FALSE, TRUE, ReasonModify)
               [] risk = RiskDangerous ->
                    IF dangerousEnabled
                    THEN Decision(FALSE, TRUE, ReasonDangerousConfirm)
                    ELSE Decision(FALSE, FALSE, ReasonDangerousBlocked)
               [] OTHER -> Decision(FALSE, TRUE, ReasonUnknown)

\* variant: enabling dangerous commands allows them without confirmation
CheckPermissionDangerousAllowed(cmd) ==
    IF cmd \in alwaysAllow
    THEN Decision(TRUE, FALSE, ReasonApproved)
    ELSE LET risk == Risk(cmd)
         IN  CASE risk = RiskSafe ->
                    IF autoAllowReads
                    THEN Decision(TRUE, FALSE, ReasonSafe)
                    ELSE Decision(FALSE, TRUE, ReasonNeedsConfirm)
               [] risk = RiskNeedsConfirm ->
                    Decision(FALSE, TRUE, ReasonModify)
               [] risk = RiskDangerous ->
                    IF dangerousEnabled
                    THEN Decision(TRUE, FALSE, ReasonDangerousConfirm)
                    ELSE Decision(FALSE, FALSE, ReasonDangerousBlocked)
               [] OTHER -> Decision(FALSE, TRUE, ReasonUnknown)

\* variant: the autoAllowReads flag is ignored for Safe commands
CheckPermissionIgnoresAutoAllowReads(cmd) ==
    IF cmd \in alwaysAllow
    THEN Decision(TRUE, FALSE, ReasonApproved)
    ELSE LET risk == Risk(cmd)
         IN  CASE risk = RiskSafe ->
                    Decision(TRUE, FALSE, ReasonSafe)
               [] risk = RiskNeedsConfirm ->
                    Decision(FALSE, TRUE, ReasonModify)
               [] risk = RiskDangerous ->
                    IF dangerousEnabled
                    THEN Decision(FALSE, TRUE, ReasonDangerousConfirm)
                    ELSE Decision(FALSE, FALSE, ReasonDangerousBlocked)
               [] OTHER -> Decision(FALSE, TRUE, ReasonUnknown)

\* variant: the allowlist is looked up with the trimmed command
CheckPermissionTrimmedLookup(cmd) ==
    IF TrimSpace(cmd) \in alwaysAllow
    THEN Decision(TRUE, FALSE, ReasonApproved)
    ELSE LET risk == Risk(cmd)
         IN  CASE risk = RiskSafe ->
                    IF autoAllowReads
                    THEN Decision(TRUE, FALSE, ReasonSafe)
                    ELSE Decision(FALSE, TRUE, ReasonNeedsConfirm)
               [] risk = RiskNeedsConfirm ->
                    Decision(FALSE, TRUE, ReasonModify)
               [] risk = RiskDangerous ->
                    IF dangerousEnabled
                    THEN Decision(FALSE, TRUE, ReasonDangerousConfirm)
                    ELSE Decision(FALSE, FALSE, ReasonDangerousBlocked)
               [] OTHER -> Decision(FALSE, TRUE, ReasonUnknown)

\* allowed, needsConfirm, reason
CheckPermission(cmd) ==
    IF cmd \in alwaysAllow
    THEN Decision(TRUE, FALSE, ReasonApproved)
    ELSE LET risk == Risk(cmd)
         IN  CASE risk = RiskSafe ->
                    IF autoAllowReads
                    THEN Decision(TRUE, FALSE, ReasonSafe)
                    ELSE Decision(FALSE, TRUE, ReasonNeedsConfirm)
               [] risk = RiskNeedsConfirm ->
                    Decision(FALSE, TRUE, ReasonModify)
               [] risk = RiskDangerous ->
                    IF dangerousEnabled
                    THEN Decision(FALSE, TRUE, ReasonDangerousConfirm)
                    ELSE Decision(FALSE, FALSE, ReasonDangerousBlocked)
               [] OTHER -> Decision(FALSE, TRUE, ReasonUnknown)

\* variant: the allowlist holds the last approved command only
AddToAllowlistReplaces(cmd) == {cmd}

\* variant: the allowlist stores the trimmed command
AddToAllowlistTrimmed(cmd) == alwaysAllow \cup {TrimSpace(cmd)}

\* pm.alwaysAllow[cmd] = true
AddToAllowlist(cmd) == alwaysAllow \cup {cmd}

\* pm.alwaysAllow = make(map[string]bool)
ClearAllowlist == {}

\* variant: the snapshot tells whether the allowlist is empty, not its size
GetSettingsFlagsAllowlist ==
    [auto_allow_reads |-> autoAllowReads,
     dangerous_enabled |-> dangerousEnabled,
     allowlist_count |-> IF alwaysAllow = {} THEN 0 ELSE 1]

GetSettings ==
    [auto_allow_reads |-> autoAllowReads,
     dangerous_enabled |-> dangerousEnabled,
     allowlist_count |-> Cardinality(alwaysAllow)]

NoDecision == Decision(FALSE, FALSE, "")
NoSettings ==
    [auto_allow_reads |-> FALSE, dangerous_enabled |-> FALSE,
     allowlist_count |-> 0]

PMCall(op, cmd, d, st) ==
    [op |-> op, cmd |-> cmd, decision |-> d, settings |-> st]

\* NewPermissionManager
PMInit ==
    /\ alwaysAllow = {}
    /\ dangerousEnabled = FALSE
    /\ autoAllowReads = TRUE
    /\ approved = {}
    /\ pmLast = PMCall("New", "", NoDecision, NoSettings)

(***************************************************************************)
(* The methods of the PermissionManager, called by a client.               *)
(***************************************************************************)
CallCheckPermission ==
    \E cmd \in PolicyCommands :
        /\ pmLast' = PMCall("CheckPermission", cmd,
                            CheckPermission(cmd), NoSettings)
        /\ UNCHANGED <<pmVars, approved, sessionVars,
                   unitVars>>

CallAddToAllowlist ==
    \E cmd \in PolicyCommands :
        /\ alwaysAllow' = AddToAllowlist(cmd)
        /\ approved' = approved \cup {cmd}
        /\ pmLast' = PMCall("AddToAllowlist", cmd, NoDecision, NoSettings)
        /\ UNCHANGED <<dangerousEnabled, autoAllowReads, sessionVars,
                   unitVars>>

CallEnableDangerous ==
    /\ dangerousEnabled' = TRUE
    /\ pmLast' = PMCall("EnableDangerous", "", NoDecision, NoSettings)
    /\ UNCHANGED <<alwaysAllow, autoAllowReads, approved, sessionVars,
                   unitVars>>

CallDisableDangerous ==
    /\ dangerousEnabled' = FALSE
    /\ pmLast' = PMCall("DisableDangerous", "", NoDecision, NoSettings)
    /\ UNCHANGED <<alwaysAllow, autoAllowReads, approved, sessionVars,
                   unitVars>>

\* variant: SetAutoAllowReads(false) also disables dangerous commands
CallSetAutoAllowReadsAndDangerous ==
    \E enabled \in BOOLEAN :
        /\ autoAllowReads' = enabled
        /\ dangerousEnabled' = (dangerousEnabled /\ enabled)
        /\ pmLast' = PMCall("SetAutoAllowReads", "", NoDecision, NoSettings)
        /\ UNCHANGED <<alwaysAllow, approved, sessionVars, unitVars>>

CallSetAutoAllowReads ==
    \E enabled \in BOOLEAN :
        /\ autoAllowReads' = enabled
        /\ pmLast' = PMCall("SetAutoAllowReads", "", NoDecision, NoSettings)
        /\ UNCHANGED <<alwaysAllow, dangerousEnabled, approved, sessionVars,
                   unitVars>>

CallGetSettings ==
    /\ pmLast' = PMCall("GetSettings", "", NoDecision, GetSettings)
    /\ UNCHANGED <<pmVars, approved, sessionVars,
                   unitVars>>

CallClearAllowlist ==
    /\ alwaysAllow' = ClearAllowlist
    /\ approved' = {}
    /\ pmLast' = PMCall("ClearAllowlist", "", NoDecision, NoSettings)
    /\ UNCHANGED <<dangerousEnabled, autoAllowReads, sessionVars,
                   unitVars>>


(***************************************************************************)
(* internal/api: messages and tool calls                                   *)
(***************************************************************************)
Message(role, content, tcs, id) ==
    [Role |-> role, Content |-> content, ToolCalls |-> tcs,
     ToolCallID |-> id]

DefaultSystemMessage == "Be precise and concise."

SystemMessage == Message("system", DefaultSystemMessage, <<>>, "")
UserMessage(text) == Message("user", text, <<>>, "")
AssistantMessage(text) == Message("assistant", text, <<>>, "")
\* variant: the assistant message of a round carries a text
AssistantToolCallsWithText(tcs) ==
    Message("assistant", "Calling tools", tcs, "")

AssistantToolCalls(tcs) == Message("assistant", "", tcs, "")
ToolMessage(content, id) == Message("tool", content, <<>>, id)

\* the keys of the JSON object a message is encoded as: content,
\* tool_calls and tool_call_id are tagged omitempty
WireFields(msg) ==
    {"role"}
        \cup (IF msg.Content # "" THEN {"content"} ELSE {})
        \cup (IF msg.ToolCalls # <<>> THEN {"tool_calls"} ELSE {})
        \cup (IF msg.ToolCallID # "" THEN {"tool_call_id"} ELSE {})

\* fmt.Sprintf(WebContextMessageTemplate, searchContext)
WebContextMessage ==
    Message("system",
            "Web search results for additional context (cite using [1], [2], etc. if relevant):\n\nresults",
            <<>>, "")

ToolCall(id, name, arguments) ==
    [ID |-> id, Name |-> name, Arguments |-> arguments]

ExecuteCommandName == "execute_command"

(***************************************************************************)
(* The inputs of a session: what the user types, what the model replies,   *)
(* what the user answers at a confirmation, what a process does.           *)
(***************************************************************************)
UserText == "question"

\* the JSON text of {command, reasoning}
Payload(cmd) == "{\"command\":\"" \o cmd \o "\",\"reasoning\":\"why\"}"
\* a payload json.Unmarshal rejects
PayloadMalformed == "{\"command\":"

ArgPayloads == {Payload(c) : c \in SessionCommands} \cup {PayloadMalformed}

\* json.Unmarshal([]byte(toolCall.Function.Arguments), &args) on the
\* payloads above
Unmarshal(arguments) ==
    IF \E c \in SessionCommands : arguments = Payload(c)
    THEN [err |-> FALSE,
          Command |-> CHOOSE c \in SessionCommands : arguments = Payload(c),
          Reasoning |-> "why"]
    ELSE [err |-> TRUE, Command |-> "", Reasoning |-> ""]

\* the name and arguments of one tool call of a reply
CallShapes ==
    {<<ExecuteCommandName, a>> : a \in ArgPayloads}
        \cup {<<"read_file", Payload("ls -la")>>}

\* the id the model gives the k-th tool call of the session
CallID(k) == "call_" \o ToString(k)

\* the tool calls a reply may carry when the model has requested k calls
\* before it: one call or more, each with a fresh id
Replies(k) ==
    UNION {{[i \in 1..n |-> ToolCall(CallID(k + i), f[i][1], f[i][2])] :
                f \in [1..n -> CallShapes]} : n \in 1..(MaxToolCalls - k)}

\* the text of a reply without tool calls
FinalContents == {"", "answer"}

\* display.AskCommandConfirmation: (allow, always)
Answer(allow, always) == [allow |-> allow, always |-> always]

UpperLetters == "ABCDEFGHIJKLMNOPQRSTUVWXYZ"
LowerLetters == "abcdefghijklmnopqrstuvwxyz"

\* unicode.ToLower on the characters the model uses
LowerChar(c) ==
    IF \E i \in 1..Len(UpperLetters) : Char(UpperLetters, i) = c
    THEN Char(LowerLetters,
              CHOOSE i \in 1..Len(UpperLetters) : Char(UpperLetters, i) = c)
    ELSE c

RECURSIVE ToLower(_)
\* strings.ToLower
ToLower(s) ==
    IF s = "" THEN ""
    ELSE LowerChar(Char(s, 1)) \o ToLower(SubSeq(s, 2, Len(s)))

\* fmt.Scanln(&response) on the line the user typed: the first run of
\* non-space characters is stored, "" when there is none; what follows it
\* makes Scanln return an error, which is not looked at
Scanln(line) == FirstField(line)

\* variant: the line is compared as typed
AskCommandConfirmationExact(line) ==
    CASE line \in {"y", "yes"} -> Answer(TRUE, FALSE)
      [] line \in {"a", "always"} -> Answer(TRUE, TRUE)
      [] OTHER -> Answer(FALSE, FALSE)

AskCommandConfirmation(line) ==
    LET response == Scanln(line)
    IN  CASE ToLower(response) \in {"y", "yes"} -> Answer(TRUE, FALSE)
          [] ToLower(response) \in {"a", "always"} -> Answer(TRUE, TRUE)
          [] OTHER -> Answer(FALSE, FALSE)
Responses == {"y", "a", "n", ""}

\* AskCommandConfirmation on the lines typed in a session, computed once
ConfirmationTable == [line \in Responses |-> AskCommandConfirmation(line)]
NoAnswer == Answer(FALSE, FALSE)

(***************************************************************************)
(* internal/executor/executor.go                                           *)
(***************************************************************************)
\* what the process started by sh -c does: it exits with a code, is killed
\* when the timeout elapses, or cannot be run
ProcOutcomes ==
    {[kind |-> "exit", code |-> 0, out |-> "out"],
     [kind |-> "exit", code |-> 0, out |-> ""],
     [kind |-> "exit", code |-> 1, out |-> "err"],
     [kind |-> "timeout", code |-> -1, out |-> ""],
     [kind |-> "timeout", code |-> -1, out |-> "par"],
     [kind |-> "nostart", code |-> -1, out |-> ""]}

\* variant: an error that is not an exit status leaves ExitCode at 0
ExecuteWithoutMinusOne(command, proc) ==
    LET err == CASE proc.kind = "exit" /\ proc.code = 0 -> ""
                 [] proc.kind = "exit" -> "exit status " \o ToString(proc.code)
                 [] proc.kind = "nostart" -> "exec: not started"
                 [] OTHER -> "signal: killed"
    IN  [Command |-> command,
         Output |-> proc.out,
         Error |-> err,
         ExitCode |-> IF proc.kind = "exit" THEN proc.code ELSE 0]

\* the ExecutionResult of Execute(ctx, command); Error "" is nil
Execute(command, proc) ==
    LET err == CASE proc.kind = "exit" /\ proc.code = 0 -> ""
                 [] proc.kind = "exit" -> "exit status " \o ToString(proc.code)
                 [] proc.kind = "nostart" -> "exec: not started"
                 [] OTHER -> "signal: killed"
        isExitError == proc.kind = "exit" /\ proc.code # 0
    IN  [Command |-> command,
         Output |-> proc.out,
         Error |-> err,
         ExitCode |-> IF isExitError THEN proc.code
                      ELSE IF err = "" THEN 0
                      ELSE -1]

\* variant: the output alone, whatever the exit code
FormatResultOutputOnly(r) == r.Output

FormatResult(r) ==
    IF r.Error # "" /\ r.ExitCode # 0
    THEN "Command failed with exit code " \o ToString(r.ExitCode)
             \o ":\n" \o r.Output
    ELSE r.Output

IsSuccess(r) == r.ExitCode = 0

\* what the processes of a session do: output, a failure, a timeout
SessionProcs ==
    {p \in ProcOutcomes : \/ p.kind = "exit" /\ p.out # ""
                          \/ p.kind = "timeout" /\ p.out = ""}

(***************************************************************************)
(* cmd/interactive.go: sendInteractiveMessageWithTools, one tool call      *)
(***************************************************************************)
\* toolCall.Function.Name == "execute_command"
IsExecuteCommand(toolCall) == toolCall.Name = ExecuteCommandName

\* variant: no decision is treated as a block
BlockedNever(d) == FALSE

\* !allowed && !needsConfirm
Blocked(d) == ~d.allowed /\ ~d.needsConfirm

\* the else branch, if needsConfirm: AskCommandConfirmation is called
AsksConfirmation(d) == ~Blocked(d) /\ d.needsConfirm

\* variant: the answer of the confirmation is not looked at
DeniedNever(d, ans) == FALSE

\* if !allow: the "denied by user" message and continue
Denied(d, ans) == AsksConfirmation(d) /\ ~ans.allow

\* variant: every approval is remembered, "yes" as well as "always"
AddsToAllowlistOnApproval(d, ans) == AsksConfirmation(d) /\ ans.allow

\* if always: AddToAllowlist(args.Command)
AddsToAllowlist(d, ans) == AsksConfirmation(d) /\ ans.allow /\ ans.always

\* variant: a denied command is executed all the same
ExecutesUnlessBlocked(d, ans) == ~Blocked(d)

\* exec.Execute(ctx, args.Command) is reached
Executes(d, ans) == ~Blocked(d) /\ ~Denied(d, ans)

BlockedContent(reason) == "Command blocked: " \o reason
DeniedContent == "Command execution denied by user"
NoOutputContent == "Command executed successfully (no output)"

\* toolResult
ToolResult(d, ans, result) ==
    IF Blocked(d) THEN BlockedContent(d.reason)
    ELSE IF Denied(d, ans) THEN DeniedContent
    ELSE IF ~IsSuccess(result) THEN FormatResult(result)
    ELSE IF result.Output = "" THEN NoOutputContent
    ELSE result.Output

\* variant: a denied call is skipped without a tool message
ToolMessagesForSkipDenied(toolCall, args, d, ans, result) ==
    IF ~IsExecuteCommand(toolCall) \/ args.err \/ Denied(d, ans) THEN <<>>
    ELSE <<ToolMessage(ToolResult(d, ans, result), toolCall.ID)>>

\* variant: a payload that fails to parse is reported in a tool message
ToolMessagesForReportsMalformed(toolCall, args, d, ans, result) ==
    IF ~IsExecuteCommand(toolCall) THEN <<>>
    ELSE IF args.err
    THEN <<ToolMessage("Failed to parse tool arguments", toolCall.ID)>>
    ELSE <<ToolMessage(ToolResult(d, ans, result), toolCall.ID)>>

\* the messages appended for a tool call
ToolMessagesFor(toolCall, args, d, ans, result) ==
    IF ~IsExecuteCommand(toolCall) \/ args.err THEN <<>>
    ELSE <<ToolMessage(ToolResult(d, ans, result), toolCall.ID)>>

\* history: what the loop body did for one tool call
LogEntry(toolCall, args, d, ans, result) ==
    LET handled == IsExecuteCommand(toolCall) /\ ~args.err
        asked == handled /\ AsksConfirmation(d)
        ran == handled /\ Executes(d, ans)
    IN  [call |-> toolCall,
         parsed |-> IsExecuteCommand(toolCall) /\ ~args.err,
         malformed |-> IsExecuteCommand(toolCall) /\ args.err,
         command |-> IF handled THEN args.Command ELSE "",
         checks |-> IF handled THEN 1 ELSE 0,
         decision |-> IF handled THEN d ELSE NoDecision,
         confirms |-> IF asked THEN 1 ELSE 0,
         answer |-> IF asked THEN ans ELSE NoAnswer,
         allowlisted |-> handled /\ AddsToAllowlist(d, ans),
         executions |-> IF ran THEN 1 ELSE 0,
         executed |-> IF ran THEN args.Command ELSE "",
         appended |-> ToolMessagesFor(toolCall, args, d, ans, result)]

\* variant: a hard block ends the turn instead of becoming a tool message
\* followed by the next call
ProcessToolCallStopsOnBlock ==
    /\ pc = "processing"
    /\ callIdx <= Len(toolCalls)
    /\ LET toolCall == toolCalls[callIdx]
           args == Unmarshal(toolCall.Arguments)
           d == CheckPermission(args.Command)
           handled == IsExecuteCommand(toolCall) /\ ~args.err
       IN  /\ \E response \in Responses, proc \in SessionProcs :
              LET ans == ConfirmationTable[response]
                  result == Execute(args.Command, proc)
              IN  /\ messages' = messages
                         \o ToolMessagesFor(toolCall, args, d, ans, result)
                  /\ alwaysAllow' =
                         IF handled /\ AddsToAllowlist(d, ans)
                         THEN AddToAllowlist(args.Command)
                         ELSE alwaysAllow
                  /\ approved' =
                         IF handled /\ AddsToAllowlist(d, ans)
                         THEN approved \cup {args.Command}
                         ELSE approved
                  /\ roundLog' =
                         Append(roundLog,
                                LogEntry(toolCall, args, d, ans, result))
           /\ pc' = IF handled /\ Blocked(d) THEN "idle"
                    ELSE IF callIdx = Len(toolCalls) THEN "awaitModel"
                    ELSE "processing"
    /\ callIdx' = callIdx + 1
    /\ UNCHANGED <<dangerousEnabled, autoAllowReads, pmLast, turnKind,
                   toolCalls, turns, calls, preTurn, roundBase, unitVars>>

ProcessToolCall ==
    /\ pc = "processing"
    /\ callIdx <= Len(toolCalls)
    /\ LET toolCall == toolCalls[callIdx]
           args == Unmarshal(toolCall.Arguments)
           d == CheckPermission(args.Command)
           handled == IsExecuteCommand(toolCall) /\ ~args.err
       IN  \E response \in Responses, proc \in SessionProcs :
          LET ans == ConfirmationTable[response]
              result == Execute(args.Command, proc)
          IN  /\ messages' = messages
                     \o ToolMessagesFor(toolCall, args, d, ans, result)
              /\ alwaysAllow' =
                     IF handled /\ AddsToAllowlist(d, ans)
                     THEN AddToAllowlist(args.Command)
                     ELSE alwaysAllow
              /\ approved' =
                     IF handled /\ AddsToAllowlist(d, ans)
                     THEN approved \cup {args.Command}
                     ELSE approved
              /\ roundLog' =
                     Append(roundLog, LogEntry(toolCall, args, d, ans, result))
    /\ callIdx' = callIdx + 1
    /\ pc' = IF callIdx = Len(toolCalls) THEN "awaitModel" ELSE "processing"
    /\ UNCHANGED <<dangerousEnabled, autoAllowReads, pmLast, turnKind, toolCalls, turns, calls, preTurn, roundBase,
                   unitVars>>

(***************************************************************************)
(* cmd/interactive.go: the session                                         *)
(***************************************************************************)
\* s[:len(s)-n]
DropLast(s, n) == SubSeq(s, 1, Len(s) - n)

\* append(s[:len(s)-3], s[len(s)-2:]...)
DropThirdFromLast(s) ==
    SubSeq(s, 1, Len(s) - 3) \o SubSeq(s, Len(s) - 1, Len(s))

\* variant: after a reply the loop asks the model again
IdleAwaitsModel ==
    /\ pc' = "awaitModel"
    /\ turnKind' = turnKind
    /\ toolCalls' = <<>>
    /\ callIdx' = 1
    /\ preTurn' = preTurn
    /\ roundBase' = 0
    /\ roundLog' = <<>>

\* the state of a session between two inputs
Idle ==
    /\ pc' = "idle"
    /\ turnKind' = "none"
    /\ toolCalls' = <<>>
    /\ callIdx' = 1
    /\ preTurn' = <<>>
    /\ roundBase' = 0
    /\ roundLog' = <<>>

\* runInteractive
SessionInit ==
    /\ messages = <<SystemMessage>>
    /\ pc = "idle"
    /\ turnKind = "none"
    /\ toolCalls = <<>>
    /\ callIdx = 1
    /\ turns = 0
    /\ calls = 0
    /\ preTurn = <<>>
    /\ roundBase = 0
    /\ roundLog = <<>>

\* executor(input), input not a slash command, app.cfg.WebSearch off (the
\* user can always switch it off with "/web off"): the user message is
\* appended and sendInteractiveMessageWithTools is called
UserInput ==
    /\ pc = "idle"
    /\ turns < MaxTurns
    /\ messages' = Append(messages, UserMessage(UserText))
    /\ preTurn' = messages
    /\ pc' = "awaitModel"
    /\ turnKind' = "chat"
    /\ turns' = turns + 1
    /\ UNCHANGED <<pmVars, approved, pmLast, toolCalls, callIdx,
                   calls, roundBase, roundLog,
                   unitVars>>

\* handleWebSearch (with tools), the search succeeded: the web context and
\* the user message are appended and sendInteractiveMessageWithTools is
\* called. Reached from executor when app.cfg.WebSearch is on and, whatever
\* its value, from "/web <query>".
WebSearchInput ==
    /\ pc = "idle"
    /\ turns < MaxTurns
    /\ messages' = messages \o <<WebContextMessage, UserMessage(UserText)>>
    /\ preTurn' = messages
    /\ pc' = "awaitModel"
    /\ turnKind' = "web"
    /\ turns' = turns + 1
    /\ UNCHANGED <<pmVars, approved, pmLast, toolCalls, callIdx,
                   calls, roundBase, roundLog,
                   unitVars>>

\* QueryWithHistoryAndToolsContext returned an error:
\* sendInteractiveMessageWithTools returns it and the caller rolls back
ModelError ==
    /\ pc = "awaitModel"
    /\ messages' = IF turnKind = "chat"
                   THEN DropLast(messages, 1)
                   ELSE DropLast(messages, 2)
    /\ Idle
    /\ UNCHANGED <<pmVars, approved, pmLast, turns, calls,
                   unitVars>>

\* the reply carries no tool calls: sendInteractiveMessageWithTools returns
\* its content and the caller records it
ModelFinal ==
    /\ pc = "awaitModel"
    /\ \E response \in FinalContents :
          messages' =
              IF turnKind = "chat"
              THEN IF response # ""
                   THEN Append(messages, AssistantMessage(response))
                   ELSE messages
              ELSE LET kept == DropThirdFromLast(messages)
                   IN  IF response # ""
                       THEN kept
                       ELSE Append(kept, AssistantMessage(response))
    /\ Idle
    /\ UNCHANGED <<pmVars, approved, pmLast, turns, calls,
                   unitVars>>

\* the reply carries tool calls: the assistant message is appended and the
\* calls are processed one by one
ModelToolCalls ==
    /\ pc = "awaitModel"
    /\ calls < MaxToolCalls
    /\ \E tcs \in Replies(calls) :
          /\ messages' = Append(messages, AssistantToolCalls(tcs))
          /\ toolCalls' = tcs
          /\ calls' = calls + Len(tcs)
    /\ callIdx' = 1
    /\ roundBase' = Len(messages) + 1
    /\ roundLog' = <<>>
    /\ pc' = "processing"
    /\ UNCHANGED <<pmVars, approved, pmLast, turnKind, turns,
                   preTurn,
                   unitVars>>

\* variant: /clear also forgets the commands approved for the session
CmdClearForgetsAllowlist ==
    /\ pc = "idle"
    /\ messages' = <<SystemMessage>>
    /\ alwaysAllow' = {}
    /\ UNCHANGED <<dangerousEnabled, autoAllowReads, approved, pmLast, pc,
                   turnKind, toolCalls, callIdx, turns, calls, preTurn,
                   roundBase, roundLog,
                   unitVars>>

\* handleCommand: /clear
CmdClear ==
    /\ pc = "idle"
    /\ messages' = <<SystemMessage>>
    /\ UNCHANGED <<pmVars, approved, pmLast, pc, turnKind,
                   toolCalls, callIdx, turns, calls, preTurn, roundBase,
                   roundLog,
                   unitVars>>

\* handleCommand: /allow-dangerous
CmdAllowDangerous ==
    /\ pc = "idle"
    /\ dangerousEnabled' = TRUE
    /\ UNCHANGED <<alwaysAllow, autoAllowReads, approved, pmLast,
                   sessionVars,
                   unitVars>>

\* handleCommand: /show-permissions
CmdShowPermissions ==
    /\ pc = "idle"
    /\ GetSettings \in [auto_allow_reads : BOOLEAN,
                       dangerous_enabled : BOOLEAN,
                       allowlist_count : Nat]
    /\ UNCHANGED vars

(***************************************************************************)
(* internal/executor/classifier.go: ClassifyCommand called on its own      *)
(***************************************************************************)
\* white space before and after a command
Leading == {"", " ", "\t"}
Trailing == {"", " ", "\n"}

\* command texts: utilities of the safe list with and without arguments,
\* read-only sub-commands, commands that modify state, commands the
\* dangerous patterns match (alone, after a safe first word, after a safe
\* sub-command), and the empty command
BaseCommands ==
    {"", "ls", "ls -la", "lsof -i", "cat x | sudo tee y", "echo hi > /dev/sda",
     "find . -exec chmod 777 x", "git status", "git status && sudo reboot",
     "git commit -m x", "gitstatus", "npm install express", "sudo rm -rf /",
     "rm -rf /", "chown a -R", "ls x; chown a -R"}

ClassifyInputs ==
    {l \o b \o t : l \in Leading, b \in BaseCommands, t \in Trailing}

NoClassification == [cmd |-> "", risk |-> "none"]

\* a client calls ClassifyCommand(cmd)
CallClassifyCommand ==
    \E cmd \in ClassifyInputs :
        /\ classified' = [cmd |-> cmd, risk |-> ClassifyCommand(cmd)]
        /\ UNCHANGED <<pmVars, approved, pmLast, sessionVars,
                       execLast, mu, callers, clientVars>>

(***************************************************************************)
(* internal/executor/executor.go: Execute called on its own                *)
(***************************************************************************)
\* the nil error
NilError == ""

\* variant: the error of the process is returned as Execute's error
ExecuteErrorOfProcess(command, proc) == Execute(command, proc).Error

\* the second value Execute returns: return result, nil
ExecuteError(command, proc) == NilError

NoExecution ==
    [command |-> "", proc |-> [kind |-> "none", code |-> 0, out |-> ""],
     returned |-> FALSE,
     result |-> [Command |-> "", Output |-> "", Error |-> "",
                 ExitCode |-> 0],
     err |-> NilError]

\* a client calls Execute(ctx, command); the process ends as proc says
CallExecute ==
    \E command \in ClassifyInputs, proc \in ProcOutcomes :
        /\ execLast' = [command |-> command, proc |-> proc,
                        returned |-> TRUE,
                        result |-> Execute(command, proc),
                        err |-> ExecuteError(command, proc)]
        /\ UNCHANGED <<pmVars, approved, pmLast, sessionVars,
                       classified, mu, callers, clientVars>>

(***************************************************************************)
(* unnamed/part_002: concurrent callers of one PermissionManager           *)
(***************************************************************************)
Callers == {1, 2}

NoCaller == 0

\* sync.RWMutex, unlocked
Unlocked == [writer |-> NoCaller, readers |-> {}]

\* the commands the concurrent callers pass
ConcurrentCommands == {"ls -la", "sudo rm -rf /"}

Mutators ==
    {"AddToAllowlist", "ClearAllowlist", "EnableDangerous",
     "DisableDangerous", "SetAutoAllowReads"}
Readers == {"CheckPermission", "GetSettings"}

\* a call: the method, its arguments, where the caller is in it, and the
\* values it is about to return
Call(at, op, cmd, enabled, ret, settings) ==
    [pc |-> at, op |-> op, cmd |-> cmd, enabled |-> enabled,
     ret |-> ret, settings |-> settings]

IdleCaller == Call("idle", "none", "", FALSE, NoDecision, NoSettings)

\* the calls a caller can make
Calls ==
    {Call("lock", op, cmd, FALSE, NoDecision, NoSettings) :
        op \in {"CheckPermission", "AddToAllowlist"},
        cmd \in ConcurrentCommands}
    \cup {Call("lock", op, "", FALSE, NoDecision, NoSettings) :
            op \in {"ClearAllowlist", "EnableDangerous",
                    "DisableDangerous", "GetSettings"}}
    \cup {Call("lock", "SetAutoAllowReads", "", b, NoDecision, NoSettings) :
            b \in BOOLEAN}

\* variant: Lock waits for the writer only
CanLockDespiteReaders == mu.writer = NoCaller

\* pm.mu.Lock() returns when no caller holds the lock
CanLock == mu.writer = NoCaller /\ mu.readers = {}

\* pm.mu.RLock() returns when no caller holds the write lock
CanRLock == mu.writer = NoCaller

\* the first position in the body of a method
FirstStep(op) ==
    CASE op = "CheckPermission" -> "checkAllowlist"
      [] op = "GetSettings" -> "readAutoAllowReads"
      [] OTHER -> "write"

\* the switch of CheckPermission on ClassifyCommand(cmd)
DecisionByRisk(cmd) ==
    LET risk == Risk(cmd)
    IN  CASE risk = RiskSafe ->
                IF autoAllowReads
                THEN Decision(TRUE, FALSE, ReasonSafe)
                ELSE Decision(FALSE, TRUE, ReasonNeedsConfirm)
          [] risk = RiskNeedsConfirm ->
                Decision(FALSE, TRUE, ReasonModify)
          [] risk = RiskDangerous ->
                IF dangerousEnabled
                THEN Decision(FALSE, TRUE, ReasonDangerousConfirm)
                ELSE Decision(FALSE, FALSE, ReasonDangerousBlocked)
          [] OTHER -> Decision(FALSE, TRUE, ReasonUnknown)

ConcurrentFrame ==
    UNCHANGED <<approved, pmLast, sessionVars, classified, execLast,
                clientVars>>

\* a goroutine calls a method of the PermissionManager
CallerBegin(t) ==
    /\ callers[t].pc = "idle"
    /\ \E c \in Calls : callers' = [callers EXCEPT ![t] = c]
    /\ UNCHANGED <<pmVars, mu>>
    /\ ConcurrentFrame

\* pm.mu.Lock() in a mutator
CallerLock(t) ==
    /\ callers[t].pc = "lock"
    /\ callers[t].op \in Mutators
    /\ CanLock
    /\ mu' = [mu EXCEPT !.writer = t]
    /\ callers' = [callers EXCEPT ![t].pc = FirstStep(callers[t].op)]
    /\ UNCHANGED pmVars
    /\ ConcurrentFrame

\* pm.mu.RLock() in CheckPermission and GetSettings
CallerRLock(t) ==
    /\ callers[t].pc = "lock"
    /\ callers[t].op \in Readers
    /\ CanRLock
    /\ mu' = [mu EXCEPT !.readers = @ \cup {t}]
    /\ callers' = [callers EXCEPT ![t].pc = FirstStep(callers[t].op)]
    /\ UNCHANGED pmVars
    /\ ConcurrentFrame

\* the assignment in the body of a mutator
CallerWrite(t) ==
    /\ callers[t].pc = "write"
    /\ alwaysAllow' =
          CASE callers[t].op = "AddToAllowlist" ->
                  AddToAllowlist(callers[t].cmd)
            [] callers[t].op = "ClearAllowlist" -> ClearAllowlist
            [] OTHER -> alwaysAllow
    /\ dangerousEnabled' =
          CASE callers[t].op = "EnableDangerous" -> TRUE
            [] callers[t].op = "DisableDangerous" -> FALSE
            [] OTHER -> dangerousEnabled
    /\ autoAllowReads' =
          IF callers[t].op = "SetAutoAllowReads"
          THEN callers[t].enabled
          ELSE autoAllowReads
    /\ callers' = [callers EXCEPT ![t].pc = "unlock"]
    /\ UNCHANGED mu
    /\ ConcurrentFrame

\* CheckPermission: if pm.alwaysAllow[cmd]
CallerCheckAllowlist(t) ==
    /\ callers[t].pc = "checkAllowlist"
    /\ callers' =
          IF callers[t].cmd \in alwaysAllow
          THEN [callers EXCEPT
                  ![t].ret = Decision(TRUE, FALSE, ReasonApproved),
                  ![t].pc = "unlock"]
          ELSE [callers EXCEPT ![t].pc = "checkRisk"]
    /\ UNCHANGED <<pmVars, mu>>
    /\ ConcurrentFrame

\* CheckPermission: risk := ClassifyCommand(cmd); switch risk
CallerCheckRisk(t) ==
    /\ callers[t].pc = "checkRisk"
    /\ callers' = [callers EXCEPT
                     ![t].ret = DecisionByRisk(callers[t].cmd),
                     ![t].pc = "unlock"]
    /\ UNCHANGED <<pmVars, mu>>
    /\ ConcurrentFrame

\* GetSettings: "auto_allow_reads": pm.autoAllowReads
CallerReadAutoAllowReads(t) ==
    /\ callers[t].pc = "readAutoAllowReads"
    /\ callers' = [callers EXCEPT
                     ![t].settings.auto_allow_reads = autoAllowReads,
                     ![t].pc = "readDangerousEnabled"]
    /\ UNCHANGED <<pmVars, mu>>
    /\ ConcurrentFrame

\* GetSettings: "dangerous_enabled": pm.dangerousEnabled
CallerReadDangerousEnabled(t) ==
    /\ callers[t].pc = "readDangerousEnabled"
    /\ callers' = [callers EXCEPT
                     ![t].settings.dangerous_enabled = dangerousEnabled,
                     ![t].pc = "readAllowlistCount"]
    /\ UNCHANGED <<pmVars, mu>>
    /\ ConcurrentFrame

\* GetSettings: "allowlist_count": len(pm.alwaysAllow)
CallerReadAllowlistCount(t) ==
    /\ callers[t].pc = "readAllowlistCount"
    /\ callers' = [callers EXCEPT
                     ![t].settings.allowlist_count =
                         Cardinality(alwaysAllow),
                     ![t].pc = "unlock"]
    /\ UNCHANGED <<pmVars, mu>>
    /\ ConcurrentFrame

\* the deferred pm.mu.Unlock() or pm.mu.RUnlock(), and the return
CallerUnlock(t) ==
    /\ callers[t].pc = "unlock"
    /\ mu' = IF callers[t].op \in Mutators
             THEN [mu EXCEPT !.writer = NoCaller]
             ELSE [mu EXCEPT !.readers = @ \ {t}]
    /\ callers' = [callers EXCEPT ![t] = IdleCaller]
    /\ UNCHANGED pmVars
    /\ ConcurrentFrame

(***************************************************************************)
(* internal/executor/executor.go: one Execute call followed in time        *)
(***************************************************************************)
\* the ticks of the clock an Execute call is followed for
MaxClock == 4

\* e.timeout, in ticks of the clock
Timeout == 2

TimedCommand == "git status"

NoTimedResult ==
    [Command |-> "", Output |-> "", Error |-> "", ExitCode |-> 0,
     Duration |-> 0]

\* no Execute call yet
NoRun ==
    [phase |-> "idle", clock |-> 0, sh |-> "none", code |-> 0,
     child |-> FALSE, ctx |-> "live", result |-> NoTimedResult]

\* the ExecutionResult built when CombinedOutput returns:
\* Duration is time.Since(start)
TimedResult ==
    LET proc == IF run.sh = "killed"
                THEN [kind |-> "timeout", code |-> -1, out |-> ""]
                ELSE [kind |-> "exit", code |-> run.code, out |-> ""]
        r == Execute(TimedCommand, proc)
    IN  [Command |-> r.Command, Output |-> r.Output, Error |-> r.Error,
         ExitCode |-> r.ExitCode, Duration |-> run.clock]

TimedFrame ==
    UNCHANGED <<pmVars, approved, pmLast, sessionVars, classified,
                execLast, mu, callers, confirmLast, search, loop,
                spinner, config>>

\* Execute is called: start := time.Now(), context.WithTimeout, and sh -c
\* is started by CombinedOutput; the command may leave a child process
\* that inherits the output pipe
ExecuteStart ==
    /\ run.phase \in {"idle", "returned"}
    /\ \E child \in BOOLEAN :
          run' = [phase |-> "running", clock |-> 0, sh |-> "running",
                  code |-> 0, child |-> child, ctx |-> "live",
                  result |-> NoTimedResult]
    /\ TimedFrame

\* time passes
ClockTick ==
    /\ run.phase = "running"
    /\ run.clock < MaxClock
    /\ run' = [run EXCEPT !.clock = @ + 1]
    /\ TimedFrame

\* the shell exits on its own
ShellExits ==
    /\ run.phase = "running"
    /\ run.sh = "running"
    /\ \E code \in {0, 1} :
          run' = [run EXCEPT !.sh = "exited", !.code = code]
    /\ TimedFrame

\* the child process exits and closes its end of the output pipe
ChildCloses ==
    /\ run.phase = "running"
    /\ run.child
    /\ run' = [run EXCEPT !.child = FALSE]
    /\ TimedFrame

\* variant: the deadline of the context passes before the timeout
TimeoutElapsesEarly ==
    /\ run.phase = "running"
    /\ run.ctx = "live"
    /\ run' = [run EXCEPT !.ctx = "deadline",
                          !.sh = IF @ = "running" THEN "killed" ELSE @]
    /\ TimedFrame

\* the deadline of context.WithTimeout(ctx, e.timeout) passes: the shell
\* process, when it still runs, is killed (exec.CommandContext); no other
\* process is
TimeoutElapses ==
    /\ run.phase = "running"
    /\ run.ctx = "live"
    /\ run.clock >= Timeout
    /\ run' = [run EXCEPT !.ctx = "deadline",
                          !.sh = IF @ = "running" THEN "killed" ELSE @]
    /\ TimedFrame

\* the caller cancels the context it passed to Execute
CallerCancels ==
    /\ run.phase = "running"
    /\ run.ctx = "live"
    /\ run' = [run EXCEPT !.ctx = "cancelled",
                          !.sh = IF @ = "running" THEN "killed" ELSE @]
    /\ TimedFrame

\* cmd.CombinedOutput() returns: the shell has ended and the output pipe
\* is at end of file, which takes every process holding it to have closed
\* it (cmd.WaitDelay is not set)
ExecuteReturns ==
    /\ run.phase = "running"
    /\ run.sh \in {"exited", "killed"}
    /\ ~run.child
    /\ run' = [run EXCEPT !.phase = "returned", !.result = TimedResult]
    /\ TimedFrame

(***************************************************************************)
(* unnamed/part_005: AskCommandConfirmation called on its own              *)
(***************************************************************************)
\* what the user types before and after the first word
ConfirmLeading == {"", " "}
ConfirmTrailing == {"", " ", " please"}

ConfirmWords ==
    {"", "y", "yes", "a", "always", "n", "no", "Y", "YES", "Yes", "A",
     "Always", "ALWAYS", "ye", "yess", "al", "always!", "ok"}

\* the lines the user types
ConfirmInputs ==
    {l \o w \o t : l \in ConfirmLeading, w \in ConfirmWords,
                   t \in ConfirmTrailing}

NoConfirmation == [asked |-> FALSE, line |-> "", answer |-> NoAnswer]

\* a client calls AskCommandConfirmation and the user types a line
CallAskCommandConfirmation ==
    /\ \E line \in ConfirmInputs :
          confirmLast' = [asked |-> TRUE, line |-> line,
                          answer |-> AskCommandConfirmation(line)]
    /\ UNCHANGED <<pmVars, approved, pmLast, sessionVars, classified,
                   execLast, mu, callers, run, search, loop, spinner,
                   config>>

(***************************************************************************)
(* internal/api/brave.go (TavilyClient), internal/api/search.go            *)
(* (LinkupClient), unnamed/part_003: search with key rotation              *)
(***************************************************************************)
\* the most keys a configuration holds
MaxKeys == 6

MaxRetryAttempts == 5

RotatableErrorCodes == {401, 403, 429}

\* variant: only a rate limit makes the client try another key
ShouldRotateKeyRateLimitOnly(statusCode) == statusCode = 429

ShouldRotateKey(statusCode) == statusCode \in RotatableErrorCodes

Queries == {"q1", "q2"}

\* what doSearch returns: a response, an *APIError with the status code of
\* the reply, or another error (the request could not be sent or read)
SearchOutcomes ==
    {[kind |-> "ok", StatusCode |-> 200],
     [kind |-> "transport", StatusCode |-> 0]}
        \cup {[kind |-> "api", StatusCode |-> c] : c \in {401, 403, 429, 500}}

NoOutcome == [kind |-> "none", StatusCode |-> 0]

\* no configuration loaded yet
NoSearch ==
    [pc |-> "unconfigured", keyCount |-> 0, CurrentKeyIdx |-> 0,
     attempt |-> 0, query |-> "", tried |-> <<>>, last |-> NoOutcome,
     cancelled |-> FALSE, err |-> "", client |-> ""]

SearchFrame ==
    UNCHANGED <<pmVars, approved, pmLast, sessionVars, classified,
                execLast, mu, callers, run, confirmLast, loop, spinner,
                config>>

\* config.Load: the keys of the provider are read, the first one is
\* current; the search client is a TavilyClient or a LinkupClient, whose
\* searchWithRetry takes a context and counts its attempts
LoadKeys ==
    /\ search.pc = "unconfigured"
    /\ \E n \in 0..MaxKeys :
          search' = [NoSearch EXCEPT !.pc = "idle", !.keyCount = n,
                                     !.client = "TavilyClient"]
    /\ SearchFrame

\* the same with a BraveClient, whose searchWithRetry takes no context
\* and loops until a return
LoadBraveKeys ==
    /\ search.pc = "unconfigured"
    /\ \E n \in 0..MaxKeys :
          search' = [NoSearch EXCEPT !.pc = "idle", !.keyCount = n,
                                     !.client = "BraveClient"]
    /\ SearchFrame

\* Search(ctx, query) is called on a client of the configuration
SearchBegin ==
    /\ search.pc \in {"idle", "returned"}
    /\ \E q \in Queries :
          search' = [search EXCEPT !.pc = "attempt", !.attempt = 0,
                                   !.query = q, !.tried = <<>>,
                                   !.last = NoOutcome,
                                   !.cancelled = FALSE, !.err = ""]
    /\ SearchFrame

\* the caller cancels the context it passed to Search
SearchCancel ==
    /\ search.pc = "attempt"
    /\ search.client = "TavilyClient"
    /\ ~search.cancelled
    /\ search' = [search EXCEPT !.cancelled = TRUE]
    /\ SearchFrame

\* the search returns with the error err ("" is nil)
SearchReturn(s, err) == [s EXCEPT !.pc = "returned", !.err = err]

\* variant: after the last key the first one is current again
RotateKeyWrapping(s) ==
    IF s.keyCount <= 1
    THEN [failed |-> TRUE, idx |-> s.CurrentKeyIdx]
    ELSE [failed |-> FALSE, idx |-> (s.CurrentKeyIdx + 1) % s.keyCount]

\* Config.RotateTavilyKey, Config.RotateLinkupKey, Config.RotateBraveKey:
\* the index after the call, and whether it failed with
\* ErrNoAvailableKeys
RotateKey(s) ==
    IF s.keyCount <= 1 \/ s.CurrentKeyIdx + 1 >= s.keyCount
    THEN [failed |-> TRUE, idx |-> s.CurrentKeyIdx]
    ELSE [failed |-> FALSE, idx |-> s.CurrentKeyIdx + 1]

\* one round of searchWithRetry: the check of the context, doSearch with
\* the current key, and what follows from its result; with a single key it
\* is the one call of doSearch
SearchAttempt ==
    /\ search.pc = "attempt"
    /\ search.client = "TavilyClient"
    /\ IF search.keyCount > 1 /\ search.cancelled
       THEN search' = SearchReturn(search, "search cancelled")
       ELSE \E o \in SearchOutcomes :
               /\ search.cancelled => o.kind = "transport"
               /\ LET done == [search EXCEPT
                                  !.tried = Append(@,
                                      [key |-> search.CurrentKeyIdx,
                                       query |-> search.query]),
                                  !.last = o]
                      rot == RotateKey(done)
                  IN  search' =
                        IF o.kind = "ok" THEN SearchReturn(done, "")
                        ELSE IF search.keyCount <= 1
                        THEN SearchReturn(done, "failed")
                        ELSE IF o.kind # "api"
                                \/ ~ShouldRotateKey(o.StatusCode)
                        THEN SearchReturn(done, "failed")
                        ELSE IF rot.failed
                        THEN SearchReturn(done, "no more API keys available")
                        ELSE IF search.attempt + 1 >= MaxRetryAttempts
                        THEN SearchReturn(
                                 [done EXCEPT !.CurrentKeyIdx = rot.idx,
                                              !.attempt = @ + 1],
                                 "max retry attempts exceeded")
                        ELSE [done EXCEPT !.CurrentKeyIdx = rot.idx,
                                          !.attempt = @ + 1]
    /\ SearchFrame


(***************************************************************************)
(* cmd/interactive.go, sendInteractiveMessageWithTools: the control flow   *)
(* of one turn, with the collaborators it waits for                        *)
(***************************************************************************)
\* the most tool calls one reply carries
MaxRoundCalls == 3

\* the rounds counted; the counter stops there, the loop does not
MaxRounds == 4

\* no turn started yet
NoLoop ==
    [pc |-> "idle", toolCalls |-> 0, callIdx |-> 1, rounds |-> 0,
     ended |-> ""]

LoopFrame ==
    UNCHANGED <<pmVars, approved, pmLast, sessionVars, classified,
                execLast, mu, callers, run, confirmLast, search, spinner,
                config>>

\* the tool call at callIdx is done: the range loop moves on
NextToolCall(l) == [l EXCEPT !.pc = "nextCall", !.callIdx = @ + 1]

\* sendInteractiveMessageWithTools is called: the for loop is entered and
\* the model is queried
LoopBegin ==
    /\ loop.pc \in {"idle", "returned"}
    /\ loop' = [NoLoop EXCEPT !.pc = "awaitModel"]
    /\ LoopFrame

\* QueryWithHistoryAndToolsContext returned an error: return "", err
LoopModelFails ==
    /\ loop.pc = "awaitModel"
    /\ loop' = [loop EXCEPT !.pc = "returned", !.ended = "error"]
    /\ LoopFrame

\* the reply has no tool calls: return content, nil
LoopModelFinal ==
    /\ loop.pc = "awaitModel"
    /\ loop' = [loop EXCEPT !.pc = "returned", !.ended = "final"]
    /\ LoopFrame

\* the reply has tool calls: the range loop over them begins
LoopModelToolCalls ==
    /\ loop.pc = "awaitModel"
    /\ \E n \in 1..MaxRoundCalls :
          loop' = [loop EXCEPT !.pc = "nextCall", !.toolCalls = n,
                               !.callIdx = 1]
    /\ LoopFrame

\* variant: the loop gives up after MaxRounds rounds
LoopNextCallCapped ==
    /\ loop.pc = "nextCall"
    /\ IF loop.callIdx > loop.toolCalls
       THEN loop' = IF loop.rounds + 1 >= MaxRounds
                    THEN [loop EXCEPT !.pc = "returned",
                                      !.rounds = MaxRounds,
                                      !.ended = "rounds"]
                    ELSE [loop EXCEPT !.pc = "awaitModel",
                                      !.rounds = @ + 1]
       ELSE \E way \in {"skipped", "blocked", "confirm", "execute"} :
               loop' = CASE way \in {"skipped", "blocked"} ->
                                NextToolCall(loop)
                         [] way = "confirm" ->
                                [loop EXCEPT !.pc = "confirming"]
                         [] way = "execute" ->
                                [loop EXCEPT !.pc = "executing"]
    /\ LoopFrame

\* one step of the range loop. After the last call: continue, the model is
\* queried again. Otherwise the call is skipped (another tool, arguments
\* that do not parse), blocked by CheckPermission, needs a confirmation,
\* or is executed at once.
LoopNextCall ==
    /\ loop.pc = "nextCall"
    /\ IF loop.callIdx > loop.toolCalls
       THEN loop' = [loop EXCEPT
                        !.pc = "awaitModel",
                        !.rounds = IF @ < MaxRounds THEN @ + 1 ELSE @]
       ELSE \E way \in {"skipped", "blocked", "confirm", "execute"} :
               loop' = CASE way \in {"skipped", "blocked"} ->
                                NextToolCall(loop)
                         [] way = "confirm" ->
                                [loop EXCEPT !.pc = "confirming"]
                         [] way = "execute" ->
                                [loop EXCEPT !.pc = "executing"]
    /\ LoopFrame

\* AskCommandConfirmation returned: denied, or allowed and Execute is
\* called
LoopConfirmationReturns ==
    /\ loop.pc = "confirming"
    /\ \E allow \in BOOLEAN :
          loop' = IF allow THEN [loop EXCEPT !.pc = "executing"]
                  ELSE NextToolCall(loop)
    /\ LoopFrame

\* Execute returned: the tool message is appended
LoopExecuteReturns ==
    /\ loop.pc = "executing"
    /\ loop' = NextToolCall(loop)
    /\ LoopFrame

(***************************************************************************)
(* unnamed/part_000: Spinner, with the goroutines that call Stop and       *)
(* UpdateMessage and the ticker goroutine of Start                         *)
(***************************************************************************)
\* the goroutines that call the methods of one Spinner
MaxSpinnerCallers == 2

SpinnerCallers == 1..MaxSpinnerCallers

SpinnerMessage == "Thinking..."

UpdatedMessages == {"Receiving..."}

\* what a read of sp.message gives while another goroutine writes it
TornMessage == "?"

\* NewSpinner
NoSpinner ==
    [started |-> FALSE, stopped |-> FALSE, mu |-> NoCaller,
     stopChan |-> "open", closes |-> 0, panicked |-> FALSE, wg |-> 0,
     ticker |-> "none", animation |-> "off",
     message |-> SpinnerMessage, shown |-> "",
     stopReturned |-> FALSE,
     pc |-> [t \in SpinnerCallers |-> "idle"],
     arg |-> [t \in SpinnerCallers |-> ""],
     afterStop |-> [t \in SpinnerCallers |-> FALSE]]

SpinnerFrame ==
    UNCHANGED <<pmVars, approved, pmLast, sessionVars, classified,
                execLast, mu, callers, run, confirmLast, search, loop,
                config>>

\* Start: the animation begins, wg.Add(1), the ticker goroutine is started
SpinnerStart ==
    /\ ~spinner.started
    /\ spinner' = [spinner EXCEPT !.started = TRUE, !.animation = "on",
                                  !.wg = 1, !.ticker = "running"]
    /\ SpinnerFrame

\* the ticker goroutine, case <-ticker.C: sp.s.Suffix is written from
\* sp.message (shown is the message it then holds), read without sp.mu;
\* the read races with the write of UpdateMessage
SpinnerTick ==
    /\ spinner.ticker = "running"
    /\ ~spinner.panicked
    /\ \E read \in {spinner.message}
                   \cup {spinner.arg[t] : t \in
                            {u \in SpinnerCallers :
                                 spinner.pc[u] = "uWrite"}}
                   \cup {TornMessage : t \in
                            {u \in SpinnerCallers :
                                 spinner.pc[u] = "uWrite"}} :
          spinner' = [spinner EXCEPT !.shown = read]
    /\ SpinnerFrame

\* the ticker goroutine, case <-sp.stopChan: return, wg.Done()
SpinnerTickerExits ==
    /\ spinner.ticker = "running"
    /\ ~spinner.panicked
    /\ spinner.stopChan = "closed"
    /\ spinner' = [spinner EXCEPT !.ticker = "exited", !.wg = 0]
    /\ SpinnerFrame

\* Stop: sp.mu.Lock()
StopLock(t) ==
    /\ spinner.started
    /\ ~spinner.panicked
    /\ spinner.pc[t] = "idle"
    /\ spinner.mu = NoCaller
    /\ spinner' = [spinner EXCEPT !.mu = t, !.pc[t] = "sRead",
                                  !.afterStop[t] = spinner.stopReturned]
    /\ SpinnerFrame

\* Stop: if sp.stopped { sp.mu.Unlock(); return }
StopRead(t) ==
    /\ ~spinner.panicked
    /\ spinner.pc[t] = "sRead"
    /\ spinner' = IF spinner.stopped
                  THEN [spinner EXCEPT
                           !.mu = NoCaller,
                           !.pc[t] = "idle",
                           !.stopReturned = TRUE]
                  ELSE [spinner EXCEPT !.pc[t] = "sSet"]
    /\ SpinnerFrame

\* Stop: sp.stopped = true; sp.mu.Unlock()
StopSet(t) ==
    /\ ~spinner.panicked
    /\ spinner.pc[t] = "sSet"
    /\ spinner' = [spinner EXCEPT !.stopped = TRUE,
                                  !.mu = NoCaller,
                                  !.pc[t] = "sClose"]
    /\ SpinnerFrame

\* Stop: close(sp.stopChan); closing a closed channel panics
StopClose(t) ==
    /\ ~spinner.panicked
    /\ spinner.pc[t] = "sClose"
    /\ spinner' = IF spinner.stopChan = "closed"
                  THEN [spinner EXCEPT !.panicked = TRUE,
                                       !.closes = @ + 1]
                  ELSE [spinner EXCEPT !.stopChan = "closed",
                                       !.closes = @ + 1,
                                       !.pc[t] = "sWait"]
    /\ SpinnerFrame

\* Stop: sp.wg.Wait() returns, sp.s.Stop(), return
StopWaitReturns(t) ==
    /\ ~spinner.panicked
    /\ spinner.pc[t] = "sWait"
    /\ spinner.wg = 0
    /\ spinner' = [spinner EXCEPT !.animation = "off", !.pc[t] = "idle",
                                  !.stopReturned = TRUE]
    /\ SpinnerFrame

\* UpdateMessage(message): sp.mu.Lock()
UpdateLock(t) ==
    /\ spinner.started
    /\ ~spinner.panicked
    /\ spinner.pc[t] = "idle"
    /\ spinner.mu = NoCaller
    /\ \E message \in UpdatedMessages :
          spinner' = [spinner EXCEPT !.mu = t, !.pc[t] = "uRead",
                                     !.arg[t] = message,
                                     !.afterStop[t] =
                                         spinner.stopReturned]
    /\ SpinnerFrame

\* UpdateMessage: if sp.stopped { return }, with the deferred Unlock
UpdateRead(t) ==
    /\ ~spinner.panicked
    /\ spinner.pc[t] = "uRead"
    /\ spinner' = IF spinner.stopped
                  THEN [spinner EXCEPT !.mu = NoCaller,
                                       !.pc[t] = "idle"]
                  ELSE [spinner EXCEPT !.pc[t] = "uWrite"]
    /\ SpinnerFrame

\* UpdateMessage: sp.message and sp.s.Suffix are written, with the
\* deferred Unlock
UpdateWrite(t) ==
    /\ ~spinner.panicked
    /\ spinner.pc[t] = "uWrite"
    /\ spinner' = [spinner EXCEPT !.message = spinner.arg[t],
                                  !.shown = spinner.arg[t],
                                  !.mu = NoCaller,
                                  !.pc[t] = "idle"]
    /\ SpinnerFrame

(***************************************************************************)
(* unnamed/part_001: KeyRotator and the Config that holds one per search   *)
(* provider, with the legacy fields the search clients read                *)
(***************************************************************************)
\* the most comma-separated entries of one keys variable of the
\* environment
MaxEnvKeys == 2

\* what stands between the commas of a keys variable
EnvEntries == {"a", " b ", ""}

RECURSIVE JoinComma(_)
\* strings.Join(entries, ",")
JoinComma(entries) ==
    IF Len(entries) = 0 THEN ""
    ELSE IF Len(entries) = 1 THEN entries[1]
    ELSE entries[1] \o "," \o JoinComma(Tail(entries))

\* the values of a keys variable
EnvValues ==
    {JoinComma(entries) :
        entries \in UNION {[1..n -> EnvEntries] : n \in 0..MaxEnvKeys}}

RECURSIVE CommaAt(_, _)
\* the index of the first comma of s at or after i (Len(s) + 1 when there
\* is none)
CommaAt(s, i) ==
    IF i > Len(s) \/ Char(s, i) = "," THEN i ELSE CommaAt(s, i + 1)

RECURSIVE SplitComma(_)
\* strings.Split(s, ",")
SplitComma(s) ==
    LET c == CommaAt(s, 1)
    IN  IF c > Len(s) THEN <<s>>
        ELSE <<SubSeq(s, 1, c - 1)>>
                 \o SplitComma(SubSeq(s, c + 1, Len(s)))

RECURSIVE TrimmedNonEmpty(_)
\* the loop of getKeysFromEnv: each entry trimmed, the empty ones dropped
TrimmedNonEmpty(entries) ==
    IF Len(entries) = 0 THEN <<>>
    ELSE LET key == TrimSpace(entries[1])
         IN  (IF key # "" THEN <<key>> ELSE <<>>)
                 \o TrimmedNonEmpty(Tail(entries))

getKeysFromEnv(keysEnv) ==
    IF keysEnv = "" THEN <<>> ELSE TrimmedNonEmpty(SplitComma(keysEnv))

\* getKeysFromEnv on the values of the model
KeysTable == [keysEnv \in EnvValues |-> getKeysFromEnv(keysEnv)]

Providers == {"tavily", "linkup", "brave"}

DefaultSearchProvider == "tavily"

\* --provider / WEB_SEARCH_PROVIDER
ProviderInputs == {"", "brave", "bing"}

ErrNoAvailableKeys == "all API keys exhausted"

ErrEndpointNotFound ==
    "Azure endpoint not found. Set AZURE_OPENAI_ENDPOINT environment variable"

ErrInvalidSearchProvider ==
    "invalid search provider. Use 'tavily', 'linkup', or 'brave'"

ErrWebSearchKeyNotFound ==
    "web search API key not found. Set TAVILY_API_KEYS, LINKUP_API_KEYS, or BRAVE_API_KEYS to use --web flag"

\* a KeyRotator; keys are indexed from 1 here, currentIdx is the index of
\* the Go code (from 0)
NewKeyRotator(keys) ==
    [keys |-> keys, currentIdx |-> 0,
     currentKey |-> IF Len(keys) > 0 THEN keys[1] ELSE ""]

HasKeys(kr) == Len(kr.keys) > 0

\* variant: after the last key the rotator starts again with the first
RotateWrapping(kr) ==
    IF Len(kr.keys) <= 1
    THEN [kr |-> kr, key |-> "", err |-> ErrNoAvailableKeys]
    ELSE LET nextIndex == (kr.currentIdx + 1) % Len(kr.keys)
         IN  [kr |-> [kr EXCEPT !.currentIdx = nextIndex,
                                !.currentKey = kr.keys[nextIndex + 1]],
              key |-> kr.keys[nextIndex + 1], err |-> ""]

\* KeyRotator.Rotate: the rotator after the call, the key and the error
\* returned
Rotate(kr) ==
    IF Len(kr.keys) <= 1
    THEN [kr |-> kr, key |-> "", err |-> ErrNoAvailableKeys]
    ELSE LET nextIndex == kr.currentIdx + 1
         IN  IF nextIndex >= Len(kr.keys)
             THEN [kr |-> kr, key |-> "", err |-> ErrNoAvailableKeys]
             ELSE [kr |-> [kr EXCEPT !.currentIdx = nextIndex,
                                     !.currentKey = kr.keys[nextIndex + 1]],
                   key |-> kr.keys[nextIndex + 1], err |-> ""]

\* the legacy fields of one provider as syncLegacyFields sets them
LegacyFields(kr) ==
    [APIKey |-> kr.currentKey, APIKeys |-> kr.keys,
     CurrentKeyIdx |-> kr.currentIdx]

syncLegacyFields(rotators) == [p \in Providers |-> LegacyFields(rotators[p])]

NoCall == [op |-> "none", provider |-> "", key |-> "", err |-> "",
           callback |-> <<>>]

\* NewConfig: no rotators yet
NoConfig ==
    [pc |-> "new",
     rotators |-> [p \in Providers |-> NewKeyRotator(<<>>)],
     legacy |-> [p \in Providers |-> LegacyFields(NewKeyRotator(<<>>))],
     WebSearch |-> FALSE, WebSearchProvider |-> "", err |-> "",
     last |-> NoCall]

ConfigFrame ==
    UNCHANGED <<pmVars, approved, pmLast, sessionVars, classified,
                execLast, mu, callers, run, confirmLast, search, loop,
                spinner>>

\* Config.Validate, called once when the program starts; the program
\* exits when it returns an error
Validate ==
    /\ config.pc = "new"
    /\ \E early \in {"", ErrEndpointNotFound},
          tavily \in EnvValues, linkup \in EnvValues, brave \in EnvValues,
          webSearch \in BOOLEAN, provider \in ProviderInputs :
          IF early # ""
          THEN config' = [config EXCEPT !.pc = "exited", !.err = early,
                                        !.WebSearch = webSearch,
                                        !.WebSearchProvider = provider]
          ELSE LET rotators ==
                       [p \in Providers |->
                           NewKeyRotator(
                               KeysTable[CASE p = "tavily" -> tavily
                                           [] p = "linkup" -> linkup
                                           [] p = "brave" -> brave])]
                   chosen ==
                       IF provider # "" THEN provider
                       ELSE IF HasKeys(rotators["tavily"]) THEN "tavily"
                       ELSE IF HasKeys(rotators["linkup"]) THEN "linkup"
                       ELSE IF HasKeys(rotators["brave"]) THEN "brave"
                       ELSE DefaultSearchProvider
                   err ==
                       IF chosen \notin Providers
                       THEN ErrInvalidSearchProvider
                       ELSE IF webSearch /\ ~HasKeys(rotators[chosen])
                       THEN ErrWebSearchKeyNotFound
                       ELSE ""
               IN  config' =
                       [pc |-> IF err = "" THEN "validated" ELSE "exited",
                        rotators |-> rotators,
                        legacy |-> syncLegacyFields(rotators),
                        WebSearch |-> webSearch,
                        WebSearchProvider |-> chosen,
                        err |-> err,
                        last |-> NoCall]
    /\ ConfigFrame

\* variant: the legacy index is left as it was
RotateProviderKeyStaleIndex(c, p) ==
    LET r == Rotate(c.rotators[p])
    IN  IF r.err # ""
        THEN [c |-> c, key |-> "", err |-> r.err]
        ELSE [c |-> [c EXCEPT !.rotators[p] = r.kr,
                              !.legacy[p].APIKey = r.key],
              key |-> r.key, err |-> ""]

\* Config.RotateTavilyKey, RotateLinkupKey, RotateBraveKey for the
\* provider p: the Config after the call, the key and the error returned
RotateProviderKey(c, p) ==
    LET r == Rotate(c.rotators[p])
    IN  IF r.err # ""
        THEN [c |-> c, key |-> "", err |-> r.err]
        ELSE [c |-> [c EXCEPT !.rotators[p] = r.kr,
                              !.legacy[p].APIKey = r.key,
                              !.legacy[p].CurrentKeyIdx = r.kr.currentIdx],
              key |-> r.key, err |-> ""]

\* a caller of the Config rotates the key of the provider p
CallRotate(p) ==
    /\ config.pc = "validated"
    /\ LET r == RotateProviderKey(config, p)
       IN  config' = [r.c EXCEPT !.last =
                         [op |-> "Rotate", provider |-> p, key |-> r.key,
                          err |-> r.err, callback |-> <<>>]]
    /\ ConfigFrame

RotateTavilyKey == CallRotate("tavily")

RotateLinkupKey == CallRotate("linkup")

RotateBraveKey == CallRotate("brave")

\* the rotateKey of the search client of the provider p, called by its
\* searchWithRetry after a failure: the legacy index is read, the key is
\* rotated and the rotation callback gets the old and the new position
\* (from 1) and the number of keys
ClientRotateKey(p) ==
    /\ config.pc = "validated"
    /\ LET oldIndex == config.legacy[p].CurrentKeyIdx
           r == RotateProviderKey(config, p)
       IN  config' = [r.c EXCEPT !.last =
                         [op |-> "rotateKey", provider |-> p,
                          key |-> "", err |-> r.err,
                          callback |->
                              IF r.err # "" THEN <<>>
                              ELSE <<oldIndex + 1,
                                     r.c.legacy[p].CurrentKeyIdx + 1,
                                     Len(r.c.rotators[p].keys)>>]]
    /\ ConfigFrame

\* one round of the searchWithRetry of BraveClient: doSearch with the
\* current key and what follows from its result; with a single key it is
\* the one call of doSearch
BraveSearchAttempt ==
    /\ search.pc = "attempt"
    /\ search.client = "BraveClient"
    /\ \E o \in SearchOutcomes :
          LET done == [search EXCEPT
                          !.tried = Append(@,
                              [key |-> search.CurrentKeyIdx,
                               query |-> search.query]),
                          !.last = o]
              rot == RotateKey(done)
          IN  search' =
                IF o.kind = "ok" THEN SearchReturn(done, "")
                ELSE IF search.keyCount <= 1
                THEN SearchReturn(done, "failed")
                ELSE IF o.kind # "api" \/ ~ShouldRotateKey(o.StatusCode)
                THEN SearchReturn(done, "failed")
                ELSE IF rot.failed
                THEN SearchReturn(done, "no more API keys available")
                ELSE [done EXCEPT !.CurrentKeyIdx = rot.idx,
                                  !.attempt = @ + 1]
    /\ SearchFrame

UnitInit ==
    /\ classified = NoClassification
    /\ execLast = NoExecution
    /\ mu = Unlocked
    /\ callers = [t \in Callers |-> IdleCaller]
    /\ run = NoRun
    /\ confirmLast = NoConfirmation
    /\ search = NoSearch
    /\ loop = NoLoop
    /\ spinner = NoSpinner
    /\ config = NoConfig

(***************************************************************************)
(* Specifications.                                                         *)
(***************************************************************************)
Init == PMInit /\ SessionInit /\ UnitInit

\* an interactive session
Next ==
    \/ UserInput
    \/ WebSearchInput
    \/ ModelError
    \/ ModelFinal
    \/ ModelToolCalls
    \/ ProcessToolCall
    \/ CmdClear
    \/ CmdAllowDangerous
    \/ CmdShowPermissions

Spec == Init /\ [][Next]_vars

\* a client of one PermissionManager calling its methods in any order
PolicyNext ==
    \/ CallCheckPermission
    \/ CallAddToAllowlist
    \/ CallEnableDangerous
    \/ CallDisableDangerous
    \/ CallSetAutoAllowReads
    \/ CallGetSettings
    \/ CallClearAllowlist

SpecPolicy == Init /\ [][PolicyNext]_vars

\* a client of the classifier, with the flags of the PermissionManager
\* that reads its result switched at any time
ClassifierNext ==
    \/ CallClassifyCommand
    \/ CallEnableDangerous
    \/ CallDisableDangerous
    \/ CallSetAutoAllowReads

SpecClassifier == Init /\ [][ClassifierNext]_vars

\* a client of the Executor
ExecutorNext == CallExecute

SpecExecutor == Init /\ [][ExecutorNext]_vars

\* goroutines calling the methods of one PermissionManager
ConcurrentNext ==
    \E t \in Callers :
        \/ CallerBegin(t)
        \/ CallerLock(t)
        \/ CallerRLock(t)
        \/ CallerWrite(t)
        \/ CallerCheckAllowlist(t)
        \/ CallerCheckRisk(t)
        \/ CallerReadAutoAllowReads(t)
        \/ CallerReadDangerousEnabled(t)
        \/ CallerReadAllowlistCount(t)
        \/ CallerUnlock(t)

SpecConcurrent == Init /\ [][ConcurrentNext]_vars

\* a client of the Executor whose call is followed in time. The runtime
\* keeps the clock, the timer of the context and the goroutine blocked in
\* CombinedOutput running; nothing makes the shell or its child end.
TimedNext ==
    \/ ExecuteStart
    \/ ClockTick
    \/ ShellExits
    \/ ChildCloses
    \/ TimeoutElapses
    \/ CallerCancels
    \/ ExecuteReturns

\* a client of the Confirmation collaborator
ConfirmationNext == CallAskCommandConfirmation

SpecConfirmation == Init /\ [][ConfirmationNext]_vars

\* a client of the search provider
SearchNext ==
    \/ LoadKeys
    \/ SearchBegin
    \/ SearchCancel
    \/ SearchAttempt

SpecSearch == Init /\ [][SearchNext]_vars

\* a client of any of the search providers. doSearch returns (the HTTP
\* client has a timeout) and the goroutine of the search keeps running.
SearchAnyNext ==
    \/ LoadKeys
    \/ LoadBraveKeys
    \/ SearchBegin
    \/ SearchCancel
    \/ SearchAttempt
    \/ BraveSearchAttempt

SpecSearchAny ==
    /\ Init
    /\ [][SearchAnyNext]_vars
    /\ WF_vars(SearchAttempt)
    /\ WF_vars(BraveSearchAttempt)

SpecTimed ==
    /\ Init
    /\ [][TimedNext]_vars
    /\ WF_vars(ClockTick)
    /\ WF_vars(TimeoutElapses)
    /\ WF_vars(ExecuteReturns)

\* one call of sendInteractiveMessageWithTools after another. The model
\* call, AskCommandConfirmation and Execute are taken to return, and the
\* goroutine of the loop keeps running; nothing makes the model stop
\* requesting tool calls.
LoopNext ==
    \/ LoopBegin
    \/ LoopModelFails
    \/ LoopModelFinal
    \/ LoopModelToolCalls
    \/ LoopNextCall
    \/ LoopConfirmationReturns
    \/ LoopExecuteReturns

SpecLoop ==
    /\ Init
    /\ [][LoopNext]_vars
    /\ WF_vars(LoopModelFails \/ LoopModelFinal \/ LoopModelToolCalls)
    /\ WF_vars(LoopNextCall)
    /\ WF_vars(LoopConfirmationReturns)
    /\ WF_vars(LoopExecuteReturns)

\* goroutines calling Stop and UpdateMessage of one started Spinner, and
\* its ticker goroutine
SpinnerNext ==
    \/ SpinnerStart
    \/ SpinnerTick
    \/ SpinnerTickerExits
    \/ \E t \in SpinnerCallers :
          \/ StopLock(t)
          \/ StopRead(t)
          \/ StopSet(t)
          \/ StopClose(t)
          \/ StopWaitReturns(t)
          \/ UpdateLock(t)
          \/ UpdateRead(t)
          \/ UpdateWrite(t)

SpecSpinner == Init /\ [][SpinnerNext]_vars

\* a process that validates its Config and then rotates keys, directly
\* and through the search clients
ConfigNext ==
    \/ Validate
    \/ RotateTavilyKey
    \/ RotateLinkupKey
    \/ RotateBraveKey
    \/ \E p \in Providers : ClientRotateKey(p)

SpecConfig == Init /\ [][ConfigNext]_vars

(***************************************************************************)
(* Properties of the PermissionManager, checked under SpecPolicy.          *)
(***************************************************************************)
Checked == pmLast.op = "CheckPermission"

Pair(d) == <<d.allowed, d.needsConfirm>>

\* C7: for every command, allowlist content and combination of the flags,
\* CheckPermission never returns allowed = true together with
\* needsConfirm = true.
C7_NeverAllowedAndNeedsConfirm ==
    /\ \A cmd \in PolicyCommands :
          ~(CheckPermission(cmd).allowed /\ CheckPermission(cmd).needsConfirm)
    /\ Checked => ~(pmLast.decision.allowed /\ pmLast.decision.needsConfirm)

\* a check that asked for a confirmation, made with a non-empty allowlist
\* and both flags changed from their defaults
C7_Witness ==
    /\ Checked
    /\ pmLast.decision.needsConfirm
    /\ alwaysAllow # {}
    /\ dangerousEnabled
    /\ ~autoAllowReads

\* C8: after AddToAllowlist(X), and until ClearAllowlist is called,
\* CheckPermission(X) returns (true, false, "Previously approved by user"),
\* whatever X classifies as and whatever the flags are.
C8_ApprovedIsAllowed ==
    /\ \A x \in approved :
          CheckPermission(x) = Decision(TRUE, FALSE, ReasonApproved)
    /\ (Checked /\ pmLast.cmd \in approved) =>
          pmLast.decision = Decision(TRUE, FALSE, ReasonApproved)

\* a Dangerous command was approved and then checked while dangerous
\* commands are disabled
C8_Witness ==
    /\ Checked
    /\ pmLast.cmd \in approved
    /\ ClassifyCommand(pmLast.cmd) = RiskDangerous
    /\ ~dangerousEnabled
    /\ ~autoAllowReads

\* C9, as claimed: after EnableDangerous(), CheckPermission(cmd) for a
\* command that classifies as Dangerous never returns (true, false).
C9_Original ==
    (Checked /\ dangerousEnabled
        /\ ClassifyCommand(pmLast.cmd) = RiskDangerous) =>
        Pair(pmLast.decision) # <<TRUE, FALSE>>

\* C9, amended: after EnableDangerous(), CheckPermission(cmd) for a command
\* that classifies as Dangerous and is not in the allowlist never returns
\* (true, false): it returns (false, true), the dangerous command requires
\* a confirmation.
C9_DangerousNotApprovedNeedsConfirm ==
    dangerousEnabled =>
        /\ \A cmd \in PolicyCommands \ alwaysAllow :
              ClassifyCommand(cmd) = RiskDangerous =>
                  Pair(CheckPermission(cmd)) = <<FALSE, TRUE>>
        /\ (Checked /\ pmLast.cmd \notin alwaysAllow
                /\ ClassifyCommand(pmLast.cmd) = RiskDangerous) =>
              Pair(pmLast.decision) = <<FALSE, TRUE>>

\* a Dangerous command outside the allowlist was checked after
\* EnableDangerous()
C9_Witness ==
    /\ Checked
    /\ dangerousEnabled
    /\ pmLast.cmd \notin alwaysAllow
    /\ ClassifyCommand(pmLast.cmd) = RiskDangerous
    /\ alwaysAllow # {}

\* the (allowed, needsConfirm) the decision table gives a command that is
\* not in the allowlist
TableEntry(risk, autoReads, dangerous) ==
    CASE risk = RiskSafe /\ autoReads -> <<TRUE, FALSE>>
      [] risk = RiskSafe /\ ~autoReads -> <<FALSE, TRUE>>
      [] risk = RiskNeedsConfirm -> <<FALSE, TRUE>>
      [] risk = RiskDangerous /\ dangerous -> <<FALSE, TRUE>>
      [] risk = RiskDangerous /\ ~dangerous -> <<FALSE, FALSE>>

\* C10: for every command that is not in the allowlist, CheckPermission
\* returns exactly (true, false) if Safe and autoAllowReads, (false, true)
\* if Safe and not autoAllowReads, (false, true) if NeedsConfirm,
\* (false, true) if Dangerous and dangerousEnabled, (false, false) if
\* Dangerous and not dangerousEnabled.
C10_DecisionTable ==
    /\ \A cmd \in PolicyCommands \ alwaysAllow :
          Pair(CheckPermission(cmd)) =
              TableEntry(ClassifyCommand(cmd), autoAllowReads,
                         dangerousEnabled)
    /\ (Checked /\ pmLast.cmd \notin alwaysAllow) =>
          Pair(pmLast.decision) =
              TableEntry(ClassifyCommand(pmLast.cmd), autoAllowReads,
                         dangerousEnabled)

\* a Safe command outside the allowlist was checked with autoAllowReads
\* switched off, while other commands are in the allowlist
C10_Witness ==
    /\ Checked
    /\ pmLast.cmd \notin alwaysAllow
    /\ ClassifyCommand(pmLast.cmd) = RiskSafe
    /\ ~autoAllowReads
    /\ alwaysAllow # {}

(***************************************************************************)
(* Properties of a session, checked under Spec.                            *)
(***************************************************************************)
\* a tool round is under way or has just ended: its calls are in toolCalls
InRound == pc \in {"processing", "awaitModel"} /\ toolCalls # <<>>

\* every call of the round was handled and the next model call is due
RoundDone == pc = "awaitModel" /\ toolCalls # <<>>

\* the messages appended after the round's assistant message
RoundMessages == SubSeq(messages, roundBase + 1, Len(messages))

IDsOfCalls(tcs) == [i \in 1..Len(tcs) |-> tcs[i].ID]
IDsOfMessages(ms) == [i \in 1..Len(ms) |-> ms[i].ToolCallID]

\* the calls of the round handled so far
HandledCalls == SubSeq(toolCalls, 1, callIdx - 1)

\* the argument payload of the call parses
Parses(tc) == ~Unmarshal(tc.Arguments).err

\* the call names the execute_command tool and its payload parses
ParsesAsCommand(tc) == IsExecuteCommand(tc) /\ Parses(tc)

NearestAssistant(i) ==
    LET before == {j \in 1..(i - 1) : messages[j].Role = "assistant"}
    IN  IF before = {} THEN 0
        ELSE CHOOSE j \in before : \A k \in before : k <= j

\* the positions of the tool calls of message j with the id of message i
CallPositions(j, i) ==
    {k \in 1..Len(messages[j].ToolCalls) :
        messages[j].ToolCalls[k].ID = messages[i].ToolCallID}

\* C2: in every reachable conversation state of a session, every tool
\* message's ToolCallID equals the id of a tool call carried by the nearest
\* preceding assistant message, and the tool messages that follow an
\* assistant message appear in the same relative order as the tool calls
\* they answer.
C2_ToolMessagesAnswerNearestAssistant ==
    \A i \in 1..Len(messages) :
        messages[i].Role = "tool" =>
            /\ NearestAssistant(i) # 0
            /\ CallPositions(NearestAssistant(i), i) # {}
            /\ \A h \in 1..(i - 1) :
                  (messages[h].Role = "tool"
                      /\ NearestAssistant(h) = NearestAssistant(i)) =>
                      \E kh \in CallPositions(NearestAssistant(i), h),
                         ki \in CallPositions(NearestAssistant(i), i) :
                            kh < ki

\* C3: when the model call fails in any round of a turn, the conversation
\* is restored to exactly its content before the turn began.
C3_FailedTurnRestoresConversation ==
    [][ModelError => messages' = preTurn]_vars

\* the history entries of the calls of the round handled so far
Entries == {roundLog[i] : i \in 1..Len(roundLog)}

\* C4: a tool call's command is passed to Executor.Execute only if, for
\* that call, CheckPermission returned allowed = true or the Confirmation
\* collaborator returned allow = true; the Confirmation collaborator is
\* invoked for a call exactly when CheckPermission returned
\* needsConfirm = true, and at most once per call.
C4_ExecuteOnlyIfAllowedOrConfirmed ==
    \A e \in Entries :
        /\ e.executions > 0 =>
              /\ e.checks = 1
              /\ e.executed = e.command
              /\ e.decision.allowed \/ (e.confirms = 1 /\ e.answer.allow)
        /\ e.confirms = IF e.checks = 1 /\ e.decision.needsConfirm
                        THEN 1 ELSE 0
        /\ e.confirms <= 1

\* in one round a command was executed after the user confirmed it, one
\* was executed because CheckPermission allowed it
C4_Witness ==
    /\ RoundDone
    /\ \E e \in Entries :
          e.executions = 1 /\ e.confirms = 1 /\ ~e.decision.allowed
    /\ \E e \in Entries :
          e.executions = 1 /\ e.confirms = 0 /\ e.decision.allowed

HardBlocked(e) ==
    e.checks = 1 /\ ~e.decision.allowed /\ ~e.decision.needsConfirm

\* C5: a tool call for which CheckPermission returns (false, false) never
\* spawns a process and never invokes the Confirmation collaborator;
\* exactly one tool message reporting the block reason is appended for it
\* and processing continues with the next call.
C5_HardBlockNeverExecutes ==
    /\ \A e \in Entries :
          HardBlocked(e) =>
              /\ e.executions = 0
              /\ e.confirms = 0
              /\ e.appended =
                     <<ToolMessage(BlockedContent(e.decision.reason),
                                   e.call.ID)>>
    /\ InRound =>
          /\ Len(roundLog) = callIdx - 1
          /\ \A i \in 1..Len(roundLog) : roundLog[i].call = toolCalls[i]
          /\ pc = "awaitModel" <=> callIdx = Len(toolCalls) + 1
          /\ Len(RoundMessages) <= Len(roundLog)

\* the first call of a round was hard-blocked and the second was executed
C5_Witness ==
    /\ RoundDone
    /\ Len(roundLog) = 2
    /\ HardBlocked(roundLog[1])
    /\ roundLog[2].executions = 1

DeniedByUser(e) == e.confirms = 1 /\ ~e.answer.allow
ApprovedByUser(e) == e.confirms = 1 /\ e.answer.allow

RECURSIVE SumExecutions(_)
SumExecutions(log) ==
    IF log = <<>> THEN 0
    ELSE Head(log).executions + SumExecutions(Tail(log))

\* C6: when the user denies a tool call at confirmation, that call is not
\* executed, exactly one "denied by user" tool message is appended for it,
\* and the remaining calls of the round are still processed: for a round
\* [A, B] with A denied and B approved the conversation gains one assistant
\* message followed by the tool messages [A-denied, B-result] and the
\* Executor is invoked exactly once, for B.
C6_DenialSkipsOnlyThatCall ==
    /\ \A e \in Entries :
          DeniedByUser(e) =>
              /\ e.executions = 0
              /\ e.appended = <<ToolMessage(DeniedContent, e.call.ID)>>
    /\ (RoundDone /\ Len(toolCalls) = 2 /\ Len(roundLog) = 2
            /\ DeniedByUser(roundLog[1]) /\ ApprovedByUser(roundLog[2])) =>
          /\ messages[roundBase] = AssistantToolCalls(toolCalls)
          /\ Len(RoundMessages) = 2
          /\ RoundMessages[1] = ToolMessage(DeniedContent, toolCalls[1].ID)
          /\ RoundMessages[2].Role = "tool"
          /\ RoundMessages[2].ToolCallID = toolCalls[2].ID
          /\ RoundMessages[2].Content # DeniedContent
          /\ RoundMessages = roundLog[1].appended \o roundLog[2].appended
          /\ SumExecutions(roundLog) = 1
          /\ roundLog[2].executions = 1
          /\ roundLog[2].executed = Unmarshal(toolCalls[2].Arguments).Command

\* the round [A, B] with A denied and B approved
C6_Witness ==
    /\ RoundDone
    /\ Len(toolCalls) = 2
    /\ Len(roundLog) = 2
    /\ DeniedByUser(roundLog[1])
    /\ ApprovedByUser(roundLog[2])

(***************************************************************************)
(* Properties of the classifier, checked under SpecClassifier.             *)
(***************************************************************************)
\* ClassifyCommand was called
Classified == classified.risk # "none"

\* the command with the surrounding white space removed, as
\* ClassifyCommand reads it
Trimmed == TrimSpace(classified.cmd)

\* the first word is on the safe list or a safe sub-command pattern matches
OnSafeSurface ==
    FirstField(Trimmed) \in safeCommands \/ MatchesSafePattern(Trimmed)

\* C11, as claimed: ClassifyCommand returns Dangerous for every command
\* that matches at least one dangerous pattern, even when its first token
\* is in the safe-utility list or it also matches a safe sub-command
\* pattern.
C11_Original ==
    (Classified /\ MatchesDangerous(classified.cmd)) =>
        classified.risk = RiskDangerous

\* C11, amended: ClassifyCommand returns Dangerous for every command that,
\* once its surrounding white space is trimmed, matches at least one
\* dangerous pattern, even when its first token is in the safe-utility
\* list or it also matches a safe sub-command pattern.
C11_DangerousPatternWins ==
    (Classified /\ MatchesDangerous(Trimmed)) =>
        classified.risk = RiskDangerous

\* a command that starts with a safe sub-command and holds "sudo" was
\* classified, with white space around it
C11_Witness ==
    /\ Classified
    /\ MatchesDangerous(Trimmed)
    /\ MatchesSafePattern(Trimmed)
    /\ Trimmed # classified.cmd
    /\ classified.risk = RiskDangerous

\* the flags and the allowlist a new PermissionManager has
DefaultPolicy == autoAllowReads /\ ~dangerousEnabled /\ alwaysAllow = {}

\* the tool-call loop would execute the command without asking the user
AutoExecutes(cmd) ==
    /\ ~AsksConfirmation(CheckPermission(cmd))
    /\ Executes(CheckPermission(cmd), NoAnswer)

\* C12, as claimed: under default flags and an empty allowlist, a command
\* is executed without user confirmation only if it matches no dangerous
\* pattern and either its first token is in the fixed safe-utility list
\* or it matches a safe sub-command pattern; every other non-empty command
\* classifies as NeedsConfirm or Dangerous and never auto-executes.
C12_Original ==
    (Classified /\ DefaultPolicy) =>
        /\ AutoExecutes(classified.cmd) =>
              ~MatchesDangerous(classified.cmd) /\ OnSafeSurface
        /\ (classified.cmd # ""
                /\ ~(~MatchesDangerous(classified.cmd) /\ OnSafeSurface)) =>
              /\ classified.risk \in {RiskNeedsConfirm, RiskDangerous}
              /\ ~AutoExecutes(classified.cmd)

\* C12, amended: under default flags and an empty allowlist, a command is
\* executed without user confirmation only if, once its surrounding white
\* space is trimmed, it matches no dangerous pattern and either its first
\* token is in the fixed safe-utility list or it matches a safe
\* sub-command pattern; every other non-empty command classifies as
\* NeedsConfirm or Dangerous and never auto-executes.
C12_OnlySafeSurfaceAutoExecutes ==
    (Classified /\ DefaultPolicy) =>
        /\ AutoExecutes(classified.cmd) =>
              ~MatchesDangerous(Trimmed) /\ OnSafeSurface
        /\ (classified.cmd # ""
                /\ ~(~MatchesDangerous(Trimmed) /\ OnSafeSurface)) =>
              /\ classified.risk \in {RiskNeedsConfirm, RiskDangerous}
              /\ ~AutoExecutes(classified.cmd)

\* a command no list knows was classified under the default policy and
\* would not be executed without confirmation
C12_Witness ==
    /\ Classified
    /\ DefaultPolicy
    /\ ~MatchesDangerous(Trimmed)
    /\ ~OnSafeSurface
    /\ classified.risk = RiskNeedsConfirm
    /\ AsksConfirmation(CheckPermission(classified.cmd))

\* C13: ClassifyCommand returns Safe for every command whose first
\* whitespace-delimited token exactly equals an entry of the safe-utility
\* list and that matches no dangerous pattern, whatever its arguments are.
C13_SafeFirstTokenIsSafe ==
    (Classified
        /\ FirstField(classified.cmd) \in safeCommands
        /\ (~MatchesDangerous(classified.cmd)
               \/ ~MatchesDangerous(Trimmed))) =>
        classified.risk = RiskSafe

\* a safe utility was classified with arguments and white space around it
C13_Witness ==
    /\ Classified
    /\ FirstField(classified.cmd) \in safeCommands
    /\ ~MatchesDangerous(classified.cmd)
    /\ Trimmed # FirstField(classified.cmd)
    /\ Trimmed # classified.cmd
    /\ classified.risk = RiskSafe

\* the command has no character other than white space
IsBlank(cmd) == \A i \in 1..Len(cmd) : Char(cmd, i) \in WhiteSpace

\* C14: ClassifyCommand returns Dangerous for the empty command and for
\* every command that consists only of whitespace; consequently a tool
\* call whose parsed command is empty is hard-blocked while
\* dangerousEnabled is false.
C14_BlankIsDangerous ==
    (Classified /\ IsBlank(classified.cmd)) =>
        /\ classified.risk = RiskDangerous
        /\ ~dangerousEnabled =>
              /\ Blocked(CheckPermission(classified.cmd))
              /\ ~Executes(CheckPermission(classified.cmd), NoAnswer)
              /\ ~AsksConfirmation(CheckPermission(classified.cmd))

\* a command of white space only was classified while dangerous commands
\* are disabled
C14_Witness ==
    /\ Classified
    /\ IsBlank(classified.cmd)
    /\ classified.cmd # ""
    /\ ~dangerousEnabled
    /\ Blocked(CheckPermission(classified.cmd))

(***************************************************************************)
(* The allowlist in a session (Spec) and under policy operations           *)
(* (SpecPolicy).                                                           *)
(***************************************************************************)
\* the step handles one tool call of the round
HandlesCall == pc = "processing" /\ Len(roundLog') = Len(roundLog) + 1

\* what the step did for the call it handled
Handled == roundLog'[Len(roundLog')]

AnsweredAlways(e) == e.confirms = 1 /\ e.answer.allow /\ e.answer.always
AnsweredYes(e) == e.confirms = 1 /\ e.answer.allow /\ ~e.answer.always

\* C15: when the user answers "always" for a command X, X is in the
\* allowlist before X is executed (the step that handles the call adds X
\* and executes it) and stays there for the rest of the session, and
\* every later tool call of the session whose command is
\* exactly X is executed without invoking the Confirmation collaborator,
\* whatever X's classification and the flags; an answer of plain "yes"
\* adds nothing to the allowlist.
C15_AlwaysSkipsLaterConfirmations ==
    [][/\ alwaysAllow \subseteq alwaysAllow'
       /\ HandlesCall =>
             /\ AnsweredAlways(Handled) =>
                   /\ Handled.allowlisted
                   /\ Handled.command \in alwaysAllow'
                   /\ Handled.executions = 1
             /\ AnsweredYes(Handled) =>
                   /\ ~Handled.allowlisted
                   /\ alwaysAllow' = alwaysAllow
                   /\ Handled.executions = 1
             /\ ~AnsweredAlways(Handled) => alwaysAllow' = alwaysAllow
             /\ (Handled.parsed /\ Handled.command \in alwaysAllow) =>
                   /\ Handled.confirms = 0
                   /\ Handled.executions = 1
                   /\ Handled.executed = Handled.command]_vars

\* in one round a Dangerous command was approved with "always" and then
\* requested again and executed without a confirmation
C15_Witness ==
    /\ RoundDone
    /\ Len(roundLog) = 2
    /\ AnsweredAlways(roundLog[1])
    /\ Risk(roundLog[1].command) = RiskDangerous
    /\ roundLog[2].command = roundLog[1].command
    /\ roundLog[2].confirms = 0
    /\ roundLog[2].executions = 1

\* the PermissionManager method the step called
Op == pmLast'.op

\* C16: across any sequence of policy operations the allowlist never loses
\* a member except by ClearAllowlist, and never gains a member except by
\* AddToAllowlist; after ClearAllowlist it is empty.
C16_AllowlistChangesOnlyByAddAndClear ==
    [][/\ (alwaysAllow \ alwaysAllow' # {}) => Op = "ClearAllowlist"
       /\ (alwaysAllow' \ alwaysAllow # {}) =>
             /\ Op = "AddToAllowlist"
             /\ alwaysAllow' = alwaysAllow \cup {pmLast'.cmd}
       /\ Op = "AddToAllowlist" =>
             alwaysAllow' = alwaysAllow \cup {pmLast'.cmd}
       /\ Op = "ClearAllowlist" => alwaysAllow' = {}]_vars

\* a second command was added to the allowlist after the flags were changed
C16_Witness ==
    /\ pmLast.op = "AddToAllowlist"
    /\ Cardinality(alwaysAllow) >= 2
    /\ dangerousEnabled
    /\ ~autoAllowReads

\* the decision the classification of the command and the flags give
OwnDecision(cmd) ==
    CASE ClassifyCommand(cmd) = RiskSafe /\ autoAllowReads ->
            Decision(TRUE, FALSE, ReasonSafe)
      [] ClassifyCommand(cmd) = RiskSafe /\ ~autoAllowReads ->
            Decision(FALSE, TRUE, ReasonNeedsConfirm)
      [] ClassifyCommand(cmd) = RiskNeedsConfirm ->
            Decision(FALSE, TRUE, ReasonModify)
      [] ClassifyCommand(cmd) = RiskDangerous /\ dangerousEnabled ->
            Decision(FALSE, TRUE, ReasonDangerousConfirm)
      [] ClassifyCommand(cmd) = RiskDangerous /\ ~dangerousEnabled ->
            Decision(FALSE, FALSE, ReasonDangerousBlocked)

\* the two commands are the same once white space is left out
RECURSIVE Squeeze(_)
Squeeze(cmd) ==
    IF cmd = "" THEN ""
    ELSE IF Char(cmd, 1) \in WhiteSpace
         THEN Squeeze(SubSeq(cmd, 2, Len(cmd)))
         ELSE Char(cmd, 1) \o Squeeze(SubSeq(cmd, 2, Len(cmd)))

\* C17: allowlist membership is by exact string: after AddToAllowlist(X),
\* CheckPermission(Y) for any Y that differs from X in any character
\* (including leading, trailing or inner whitespace) is decided by Y's own
\* classification and the flags, not by the approval of X.
C17_AllowlistIsExactString ==
    /\ \A y \in PolicyCommands \ alwaysAllow :
          CheckPermission(y) = OwnDecision(y)
    /\ (Checked /\ pmLast.cmd \notin alwaysAllow) =>
          pmLast.decision = OwnDecision(pmLast.cmd)

\* "ls -la" is approved and its three variants with leading, trailing and
\* inner white space are not; one of them was checked with autoAllowReads
\* off and needs a confirmation
C17_Witness ==
    /\ Checked
    /\ alwaysAllow = {"ls -la"}
    /\ pmLast.cmd # "ls -la"
    /\ Squeeze(pmLast.cmd) = Squeeze("ls -la")
    /\ {c \in PolicyCommands : Squeeze(c) = "ls-la"} =
           {"ls -la", " ls -la", "ls -la ", "ls  -la"}
    /\ ~autoAllowReads
    /\ Pair(pmLast.decision) = <<FALSE, TRUE>>

\* C18: ClassifyCommand, CheckPermission and GetSettings leave the
\* allowlist, dangerousEnabled and autoAllowReads unchanged; these change
\* only through AddToAllowlist, ClearAllowlist, EnableDangerous,
\* DisableDangerous and SetAutoAllowReads, each of which changes only its
\* own field.
C18_OperationsChangeOnlyTheirField ==
    [][/\ Op \in {"CheckPermission", "GetSettings"} => UNCHANGED pmVars
       /\ Op \in {"AddToAllowlist", "ClearAllowlist"} =>
             UNCHANGED <<dangerousEnabled, autoAllowReads>>
       /\ Op \in {"EnableDangerous", "DisableDangerous"} =>
             UNCHANGED <<alwaysAllow, autoAllowReads>>
       /\ Op = "SetAutoAllowReads" =>
             UNCHANGED <<alwaysAllow, dangerousEnabled>>
       /\ alwaysAllow' # alwaysAllow =>
             Op \in {"AddToAllowlist", "ClearAllowlist"}
       /\ dangerousEnabled' # dangerousEnabled =>
             Op \in {"EnableDangerous", "DisableDangerous"}
       /\ autoAllowReads' # autoAllowReads => Op = "SetAutoAllowReads"
       /\ Op \in {"CheckPermission", "GetSettings", "AddToAllowlist",
                  "ClearAllowlist", "EnableDangerous", "DisableDangerous",
                  "SetAutoAllowReads"}]_vars

\* CheckPermission classified and allowed a command while the allowlist
\* holds other commands and both flags differ from their defaults
C18_Witness ==
    /\ Checked
    /\ pmLast.cmd \notin alwaysAllow
    /\ alwaysAllow # {}
    /\ dangerousEnabled
    /\ ~autoAllowReads
    /\ pmLast.decision.reason = ReasonDangerousConfirm

(***************************************************************************)
(* Properties of the Executor, checked under SpecExecutor.                 *)
(***************************************************************************)
\* the command ran and exited with a non-zero code
ExitedNonZero == execLast.proc.kind = "exit" /\ execLast.proc.code # 0

\* C20: Executor.Execute always returns a result; its error return is nil
\* whenever the command ran and exited with a non-zero code, and the
\* non-zero exit is reported only through the result's ExitCode and Error
\* fields.
C20_ExecuteReturnsResultAndNilError ==
    execLast.returned =>
        /\ execLast.result.Command = execLast.command
        /\ execLast.result.Output = execLast.proc.out
        /\ execLast.err = NilError
        /\ ExitedNonZero =>
              /\ execLast.result.ExitCode = execLast.proc.code
              /\ execLast.result.Error # NilError
              /\ ~IsSuccess(execLast.result)
        /\ (execLast.proc.kind = "exit" /\ execLast.proc.code = 0) =>
              /\ execLast.result.ExitCode = 0
              /\ execLast.result.Error = NilError

\* Execute returned for a command that exited with code 1
C20_Witness ==
    /\ execLast.returned
    /\ ExitedNonZero
    /\ execLast.result.ExitCode = 1
    /\ execLast.err = NilError

(***************************************************************************)
(* Properties of concurrent callers, checked under SpecConcurrent.         *)
(***************************************************************************)
\* the caller is between the return of Lock or RLock and its unlock
InMethod(t) == callers[t].pc \notin {"idle", "lock"}

\* the caller has computed what it returns and still holds the lock
Returning(t) == callers[t].pc = "unlock"

\* C19: all PermissionManager mutators, GetSettings and CheckPermission
\* take the same lock of the instance, so under any interleaving of
\* concurrent callers no two mutators overlap, no CheckPermission or
\* GetSettings overlaps a mutator, and every returned decision or snapshot
\* equals the one computed from the state left by some preceding complete
\* operation.
C19_LockSerialisesOperations ==
    /\ \A t \in Callers :
          InMethod(t) =>
              IF callers[t].op \in Mutators
              THEN mu.writer = t /\ mu.readers = {}
              ELSE t \in mu.readers /\ mu.writer = NoCaller
    /\ \A t, u \in Callers :
          (t # u /\ InMethod(t) /\ InMethod(u)) =>
              callers[t].op \in Readers /\ callers[u].op \in Readers
    /\ \A t \in Callers :
          Returning(t) =>
              /\ callers[t].op = "CheckPermission" =>
                    callers[t].ret = CheckPermission(callers[t].cmd)
              /\ callers[t].op = "GetSettings" =>
                    callers[t].settings = GetSettings

\* CheckPermission is about to return a decision for a command that another
\* caller, waiting for the lock, is adding to the allowlist
C19_Witness ==
    /\ Returning(1)
    /\ callers[1].op = "CheckPermission"
    /\ callers[1].ret = Decision(FALSE, TRUE, ReasonDangerousConfirm)
    /\ callers[2].pc = "lock"
    /\ callers[2].op = "AddToAllowlist"
    /\ callers[2].cmd = callers[1].cmd

(***************************************************************************)
(* Properties of the tool message of an executed call, checked under       *)
(* SpecExecutor: the loop body's toolResult for every result of Execute.   *)
(***************************************************************************)
\* sub occurs in s
Contains(s, sub) ==
    \E i \in 1..(Len(s) - Len(sub) + 1) :
        SubSeq(s, i, i + Len(sub) - 1) = sub

\* s begins with prefix
StartsWith(s, prefix) ==
    /\ Len(s) >= Len(prefix)
    /\ SubSeq(s, 1, Len(prefix)) = prefix

\* the content of the tool message appended when the last command of
\* Execute was allowed without confirmation and executed
ExecutedContent ==
    ToolResult(Decision(TRUE, FALSE, ReasonSafe), NoAnswer, execLast.result)

ProcSucceeded == execLast.proc.kind = "exit" /\ execLast.proc.code = 0

FailureSummaryPrefix == "Command failed with exit code "

\* C23: the content of the tool message of an executed call is the captured
\* output on success, the "executed successfully (no output)" sentinel when
\* that output is empty, and on any failure (non-zero exit, timeout, the
\* process could not run) a failure summary that contains the exit code and
\* the captured output; it is never the empty string.
C23_ToolContentFollowsOutcome ==
    execLast.returned =>
        /\ ExecutedContent # ""
        /\ (ProcSucceeded /\ execLast.proc.out # "") =>
               ExecutedContent = execLast.proc.out
        /\ (ProcSucceeded /\ execLast.proc.out = "") =>
               ExecutedContent = NoOutputContent
        /\ ~ProcSucceeded =>
               /\ StartsWith(ExecutedContent, FailureSummaryPrefix)
               /\ Contains(ExecutedContent,
                           ToString(execLast.result.ExitCode))
               /\ Contains(ExecutedContent, execLast.proc.out)
               /\ ExecutedContent =
                      FailureSummaryPrefix
                          \o ToString(execLast.result.ExitCode)
                          \o ":\n" \o execLast.proc.out

\* a command timed out without output and its tool message is the summary
C23_Witness ==
    /\ execLast.returned
    /\ execLast.proc.kind = "timeout"
    /\ execLast.proc.out = ""
    /\ ExecutedContent = "Command failed with exit code -1:\n"

(***************************************************************************)
(* Properties of the tool loop's control flow, checked under Spec.         *)
(***************************************************************************)
\* the step ends the turn: sendInteractiveMessageWithTools returns
Returns == pc # "idle" /\ pc' = "idle"

\* the command of the entry ran and did not succeed
FailedExecution(e) ==
    /\ e.executions = 1
    /\ Len(e.appended) = 1
    /\ StartsWith(e.appended[1].Content, FailureSummaryPrefix)

\* the command of the entry was killed at the timeout
TimedOut(e) ==
    /\ FailedExecution(e)
    /\ StartsWith(e.appended[1].Content,
                  FailureSummaryPrefix \o ToString(-1))

\* C24: sendInteractiveMessageWithTools returns an error only when a model
\* call fails. A hard block, a denial by the user, a malformed argument
\* payload and a failed command never end the turn: each becomes one tool
\* message (the malformed call is skipped) and the loop goes on with the
\* next call, or with the next model call after the last one.
C24_OnlyModelFailureEndsWithError ==
    [][/\ Returns => pc = "awaitModel"
       /\ ModelError => pc = "awaitModel"
       /\ HandlesCall =>
             /\ ~Returns
             /\ callIdx' = callIdx + 1
             /\ pc' = IF callIdx < Len(toolCalls) THEN "processing"
                      ELSE "awaitModel"
             /\ <<turnKind', toolCalls', preTurn', turns'>>
                    = <<turnKind, toolCalls, preTurn, turns>>
             /\ messages' = messages \o Handled.appended
             /\ (\/ HardBlocked(Handled)
                 \/ DeniedByUser(Handled)
                 \/ FailedExecution(Handled)) =>
                    /\ Len(Handled.appended) = 1
                    /\ Handled.appended[1].Role = "tool"
                    /\ Handled.appended[1].Content # ""
             /\ Handled.malformed => Handled.appended = <<>>
      ]_vars

\* a round in which the first call was hard blocked and the command of the
\* second call ran into the timeout
C24_Witness ==
    /\ pc = "awaitModel"
    /\ Len(roundLog) = 2
    /\ HardBlocked(roundLog[1])
    /\ TimedOut(roundLog[2])

\* the message belongs to a tool round: an assistant message with tool
\* calls or a tool message
IsToolTraffic(msg) == msg.Role = "tool" \/ msg.ToolCalls # <<>>

\* C25: a model reply without tool calls is terminal for the turn:
\* sendInteractiveMessageWithTools returns the reply's content, no further
\* model call is issued, neither the policy nor the Executor is invoked,
\* and no assistant message with tool calls and no tool message is
\* appended for that reply.
C25_ReplyWithoutToolCallsIsTerminal ==
    [][ModelFinal =>
          /\ pc' = "idle"
          /\ toolCalls' = <<>>
          /\ roundLog' = <<>>
          /\ UNCHANGED <<pmVars, approved, pmLast, calls, turns>>
          /\ Len(SelectSeq(messages', IsToolTraffic))
                 <= Len(SelectSeq(messages, IsToolTraffic))
          /\ turnKind = "chat" =>
                \/ messages' = messages
                \/ /\ DropLast(messages', 1) = messages
                   /\ LET last == messages'[Len(messages')]
                      IN  /\ last.Role = "assistant"
                          /\ last.Content \in FinalContents \ {""}
                          /\ ~IsToolTraffic(last)
      ]_vars

\* a turn that ended with the reply "answer" after a round of tool calls
C25_Witness ==
    /\ pc = "idle"
    /\ turns > 0
    /\ messages[Len(messages)] = AssistantMessage("answer")
    /\ \E i \in 1..Len(messages) : messages[i].Role = "tool"

\* the step receives a reply with tool calls
ReceivesToolCalls == pc = "awaitModel" /\ pc' = "processing"

\* C26: for each model reply that contains tool calls exactly one assistant
\* message is appended, before any tool message of the round; it carries
\* all the tool calls of the reply in the order received and has empty
\* text content, which is omitted on the wire.
C26_OneAssistantMessagePerRound ==
    [][/\ ReceivesToolCalls =>
             LET sent == messages'[Len(messages')]
             IN  /\ DropLast(messages', 1) = messages
                 /\ roundBase' = Len(messages')
                 /\ toolCalls' # <<>>
                 /\ sent.Role = "assistant"
                 /\ sent.ToolCalls = toolCalls'
                 /\ sent.Content = ""
                 /\ WireFields(sent) = {"role", "tool_calls"}
       /\ HandlesCall =>
             /\ roundBase' = roundBase
             /\ toolCalls' = toolCalls
             /\ SubSeq(messages', 1, Len(messages)) = messages
             /\ \A i \in (roundBase + 1)..Len(messages') :
                   /\ messages'[i].Role = "tool"
                   /\ messages'[i].ToolCalls = <<>>
             /\ messages'[roundBase].ToolCalls = toolCalls
             /\ \A i \in 1..Len(toolCalls) :
                   messages'[roundBase].ToolCalls[i] = toolCalls[i]
      ]_vars

\* a round of two calls whose assistant message is followed by the tool
\* messages of both calls
C26_Witness ==
    /\ RoundDone
    /\ Len(toolCalls) = 2
    /\ messages[roundBase].Role = "assistant"
    /\ messages[roundBase].ToolCalls = toolCalls
    /\ WireFields(messages[roundBase]) = {"role", "tool_calls"}
    /\ Len(messages) = roundBase + 2
    /\ messages[roundBase + 1].ToolCallID = toolCalls[1].ID
    /\ messages[roundBase + 2].ToolCallID = toolCalls[2].ID

\* the arguments of the call are a payload json.Unmarshal rejects
MalformedCall(tc) ==
    /\ tc.Name = ExecuteCommandName
    /\ tc.Arguments = PayloadMalformed

\* C27: a tool call whose argument payload fails to parse is skipped: no
\* tool message is appended for it, neither the policy, the Confirmation
\* collaborator nor the Executor is invoked for it, and every remaining
\* call of the round is still processed, in order.
C27_MalformedCallIsSkipped ==
    InRound =>
        /\ Len(roundLog) = callIdx - 1
        /\ RoundDone => Len(roundLog) = Len(toolCalls)
        /\ \A i \in 1..Len(roundLog) :
              /\ roundLog[i].call = toolCalls[i]
              /\ MalformedCall(toolCalls[i]) =>
                    /\ roundLog[i].malformed
                    /\ roundLog[i].appended = <<>>
                    /\ roundLog[i].checks = 0
                    /\ roundLog[i].confirms = 0
                    /\ roundLog[i].executions = 0
                    /\ ~roundLog[i].allowlisted
                    /\ \A k \in 1..Len(RoundMessages) :
                          RoundMessages[k].ToolCallID # toolCalls[i].ID
        /\ IDsOfMessages(RoundMessages) =
              IDsOfCalls(SelectSeq(HandledCalls, ParsesAsCommand))

\* the first call of a round was malformed and skipped, the second call
\* was executed and answered
C27_Witness ==
    /\ RoundDone
    /\ Len(toolCalls) = 2
    /\ MalformedCall(toolCalls[1])
    /\ roundLog[1].appended = <<>>
    /\ roundLog[2].executions = 1
    /\ Len(RoundMessages) = 1
    /\ RoundMessages[1].ToolCallID = toolCalls[2].ID

(***************************************************************************)
(* Properties of GetSettings, checked under SpecPolicy.                    *)
(***************************************************************************)
\* C29: GetSettings returns a snapshot holding exactly the current
\* autoAllowReads, the current dangerousEnabled and allowlist_count equal to
\* the number of distinct commands in the allowlist (0 on a new manager and
\* after ClearAllowlist), and it exposes no command string.
C29_GetSettingsIsExactSnapshot ==
    pmLast.op = "GetSettings" =>
        /\ DOMAIN pmLast.settings =
               {"auto_allow_reads", "dangerous_enabled", "allowlist_count"}
        /\ pmLast.settings.auto_allow_reads = autoAllowReads
        /\ pmLast.settings.dangerous_enabled = dangerousEnabled
        /\ pmLast.settings.allowlist_count \in Nat
        /\ pmLast.settings.allowlist_count = Cardinality(approved)
        /\ approved = {} => pmLast.settings.allowlist_count = 0
        /\ pmLast.settings.auto_allow_reads \in BOOLEAN
        /\ pmLast.settings.dangerous_enabled \in BOOLEAN

\* GetSettings was called with two commands on the allowlist, dangerous
\* commands enabled and automatic reads switched off
C29_Witness ==
    /\ pmLast.op = "GetSettings"
    /\ pmLast.settings.allowlist_count = 2
    /\ pmLast.settings.dangerous_enabled
    /\ ~pmLast.settings.auto_allow_reads
    /\ Cardinality(alwaysAllow) = 2

(***************************************************************************)
(* Properties of Execute in time, checked under SpecTimed.                 *)
(***************************************************************************)
\* the call returned and its shell was still running when the timeout
\* elapsed or the caller's context was cancelled
ReturnedKilled == run.phase = "returned" /\ run.sh = "killed"

\* C21 as stated: the Duration is not smaller than the timeout both after
\* the timeout elapsed and after the caller's context was cancelled
C21_Original ==
    ReturnedKilled =>
        /\ run.result.Error # NilError
        /\ run.result.ExitCode = -1
        /\ run.result.Duration >= Timeout

\* C21: an Execute call whose process is still running when the timeout
\* elapses or the caller's context is cancelled returns a result with a
\* non-nil Error and ExitCode -1; its Duration is not smaller than the
\* timeout when the timeout elapsed, and is the time until the call
\* returned, possibly smaller than the timeout, when the caller cancelled.
C21_KilledCallReportsMinusOne ==
    /\ ReturnedKilled =>
          /\ run.result.Error # NilError
          /\ run.result.ExitCode = -1
          /\ run.result.Duration = run.clock
          /\ run.ctx = "deadline" => run.result.Duration >= Timeout
          /\ run.ctx \in {"deadline", "cancelled"}
    /\ (run.phase = "returned" /\ run.sh = "exited") =>
          /\ run.result.ExitCode = run.code
          /\ run.result.ExitCode # -1

\* the shell was killed at the timeout and the call returned
C21_Witness ==
    /\ ReturnedKilled
    /\ run.ctx = "deadline"
    /\ run.result.ExitCode = -1
    /\ run.result.Duration = Timeout

\* C22: every Execute call eventually returns: once the timeout has
\* elapsed the process is forcibly terminated and the call returns instead
\* of blocking further, whatever the command does, commands that leave
\* child processes holding the output pipe included.
C22_ExecuteEventuallyReturns ==
    (run.phase = "running") ~> (run.phase = "returned")

(***************************************************************************)
(* Properties of AskCommandConfirmation, checked under SpecConfirmation.   *)
(***************************************************************************)
\* C28 as stated: the line itself is compared, in lower case only
C28_Original ==
    confirmLast.asked =>
        confirmLast.answer =
            CASE confirmLast.line \in {"y", "yes"} -> Answer(TRUE, FALSE)
              [] confirmLast.line \in {"a", "always"} -> Answer(TRUE, TRUE)
              [] OTHER -> Answer(FALSE, FALSE)

\* the first word of the line, in lower case
TypedWord == ToLower(FirstField(confirmLast.line))

\* C28: the Confirmation collaborator compares the first word of the line
\* the user types, whatever its case: y or yes gives (true, false), a or
\* always gives (true, true), every other word and an empty line give
\* (false, false); it never returns (false, true).
C28_ConfirmationMapsFirstWord ==
    confirmLast.asked =>
        /\ TypedWord \in {"y", "yes"} =>
               confirmLast.answer = Answer(TRUE, FALSE)
        /\ TypedWord \in {"a", "always"} =>
               confirmLast.answer = Answer(TRUE, TRUE)
        /\ TypedWord \notin {"y", "yes", "a", "always"} =>
               confirmLast.answer = Answer(FALSE, FALSE)
        /\ ~(~confirmLast.answer.allow /\ confirmLast.answer.always)
        /\ confirmLast.line \in {"Y", "yes", " Yes", "YES please"} =>
               confirmLast.answer = Answer(TRUE, FALSE)
        /\ confirmLast.line \in {"A", "always", " ALWAYS "} =>
               confirmLast.answer = Answer(TRUE, TRUE)
        /\ confirmLast.line \in {"", " ", "n", "yess", "always! please"} =>
               confirmLast.answer = Answer(FALSE, FALSE)

\* the user typed "YES please" and the command was allowed once
C28_Witness ==
    /\ confirmLast.asked
    /\ confirmLast.line = "YES please"
    /\ confirmLast.answer = Answer(TRUE, FALSE)

(***************************************************************************)
(* Properties of the search client's key rotation, checked under           *)
(* SpecSearch.                                                             *)
(***************************************************************************)
\* the step is a call of doSearch
Attempts ==
    search.pc = "attempt" /\ Len(search'.tried) = Len(search.tried) + 1

\* the attempt of the step failed with status 401, 403 or 429
FailsRotatable ==
    /\ Attempts
    /\ search'.last.kind = "api"
    /\ search'.last.StatusCode \in {401, 403, 429}

\* the attempt of the step failed in another way
FailsOtherwise ==
    /\ Attempts
    /\ search'.last.kind # "ok"
    /\ ~FailsRotatable

LaterKeyExists == search.CurrentKeyIdx + 1 < search.keyCount

ReturnsError == search'.pc = "returned" /\ search'.err # ""

\* the search goes on with another attempt for the same query
WillRetry == search'.pc = "attempt" /\ search'.query = search.query

\* C30 as stated: every attempt that fails with 401, 403 or 429 while a
\* later key exists is followed by a retry with the next key
C30_Original ==
    [][/\ (FailsRotatable /\ LaterKeyExists) =>
             /\ search'.CurrentKeyIdx = search.CurrentKeyIdx + 1
             /\ WillRetry
       /\ FailsOtherwise =>
             /\ ReturnsError
             /\ search'.CurrentKeyIdx = search.CurrentKeyIdx
       /\ (FailsRotatable /\ ~LaterKeyExists) => ReturnsError
      ]_vars

\* C30: when a search attempt fails with status 401, 403 or 429 and a
\* later key exists, the client switches to the next key; it retries the
\* same query with it unless the attempt was the fifth of the search, in
\* which case the search returns an error with the next key selected (a
\* cancelled context also ends the search before the retry). A failure of
\* any other kind is returned at once without changing the current key,
\* and when no later key exists the search returns an error.
C30_RotatesAndRetriesUpToFiveAttempts ==
    [][/\ (FailsRotatable /\ LaterKeyExists) =>
             /\ search'.CurrentKeyIdx = search.CurrentKeyIdx + 1
             /\ search.attempt < MaxRetryAttempts - 1 => WillRetry
             /\ search.attempt >= MaxRetryAttempts - 1 => ReturnsError
       /\ FailsOtherwise =>
             /\ ReturnsError
             /\ search'.CurrentKeyIdx = search.CurrentKeyIdx
       /\ (FailsRotatable /\ ~LaterKeyExists) =>
             /\ ReturnsError
             /\ search'.CurrentKeyIdx = search.CurrentKeyIdx
       /\ Attempts =>
             /\ search'.tried[Len(search'.tried)] =
                    [key |-> search.CurrentKeyIdx, query |-> search.query]
             /\ Len(search'.tried) <= MaxRetryAttempts
             /\ \A i \in 1..Len(search.tried) :
                   /\ search'.tried[i] = search.tried[i]
                   /\ search.tried[i].query = search.query
                   /\ search.tried[i].key + Len(search.tried) - i + 1
                          = search.CurrentKeyIdx
       /\ (search.pc = "attempt" /\ ~Attempts /\ search'.pc = "returned") =>
             /\ search.cancelled
             /\ ReturnsError
             /\ search'.CurrentKeyIdx = search.CurrentKeyIdx
      ]_vars

\* a search that got 429 with the first key and an answer with the second
C30_Witness ==
    /\ search.pc = "returned"
    /\ search.err = ""
    /\ search.tried = <<[key |-> 0, query |-> "q1"],
                        [key |-> 1, query |-> "q1"]>>
    /\ search.CurrentKeyIdx = 1
    /\ search.keyCount = 3

(***************************************************************************)
(* Properties of ExecutionResult, checked under SpecExecutor.              *)
(***************************************************************************)
\* C31: every result of Execute has ExitCode 0 exactly when its Error is
\* nil, so IsSuccess agrees with "ExitCode 0 and Error nil", and
\* FormatResult returns the failure summary exactly when IsSuccess is
\* false.
C31_ExitCodeZeroIffNoError ==
    execLast.returned =>
        LET r == execLast.result
        IN  /\ (r.ExitCode = 0) <=> (r.Error = NilError)
            /\ IsSuccess(r) <=> (r.ExitCode = 0 /\ r.Error = NilError)
            /\ StartsWith(FormatResult(r), FailureSummaryPrefix)
                   <=> ~IsSuccess(r)
            /\ IsSuccess(r) => FormatResult(r) = r.Output
            /\ ~IsSuccess(r) =>
                   FormatResult(r) =
                       FailureSummaryPrefix \o ToString(r.ExitCode)
                           \o ":\n" \o r.Output

\* Execute returned for a process that could not be started: Error is set,
\* ExitCode is -1 and FormatResult gives the summary
C31_Witness ==
    /\ execLast.returned
    /\ execLast.proc.kind = "nostart"
    /\ execLast.result.Error # NilError
    /\ execLast.result.ExitCode = -1
    /\ FormatResult(execLast.result) = "Command failed with exit code -1:\n"

(***************************************************************************)
(* Properties of the web-search turn, checked under Spec.                  *)
(***************************************************************************)
\* the step is the successful end of a tool-enabled handleWebSearch
WebSearchCompletes == ModelFinal /\ turnKind = "web"

\* the messages of the tool rounds of the turn: what the loop appended
\* after the web context and the user query
TurnRoundMessages == SubSeq(messages, Len(preTurn) + 3, Len(messages))

\* C32: after the tool-enabled handleWebSearch completes successfully the
\* conversation is the history before the call followed by the user query,
\* the messages of the tool rounds and the assistant response; the web
\* context message is gone and no message of the earlier history (the
\* initial system message in particular) has been removed.
C32_WebSearchKeepsHistoryDropsContext ==
    [][WebSearchCompletes =>
          /\ Len(messages') = Len(preTurn) + 1 + Len(TurnRoundMessages) + 1
          /\ SubSeq(messages', 1, Len(preTurn)) = preTurn
          /\ messages'[1] = SystemMessage
          /\ messages'[Len(preTurn) + 1] = UserMessage(UserText)
          /\ SubSeq(messages', Len(preTurn) + 2, Len(messages') - 1)
                 = TurnRoundMessages
          /\ messages'[Len(messages')].Role = "assistant"
          /\ messages'[Len(messages')].ToolCalls = <<>>
          /\ \A i \in 1..Len(messages') : messages'[i] # WebContextMessage
      ]_vars

(***************************************************************************)
(* Properties of the rounds of a turn, checked under SpecLoop.             *)
(***************************************************************************)
\* the positions of the loop inside a round of tool calls
InToolRound == loop.pc \in {"nextCall", "confirming", "executing"}

\* C33: a turn of sendInteractiveMessageWithTools ends only when the model
\* returns a reply without tool calls or a model call fails, and it ends
\* at once then. A reply with tool calls never ends the turn: its round
\* completes (the model call, the confirmations and the executions
\* return) and the model is queried again, however many rounds came
\* before.
C33_TurnEndsOnlyOnFinalReplyOrModelFailure ==
    /\ [](loop.pc = "returned" => loop.ended \in {"final", "error"})
    /\ [][/\ (loop.pc # "returned" /\ loop'.pc = "returned") =>
                loop.pc = "awaitModel"
          /\ InToolRound => loop'.pc \in {"nextCall", "confirming",
                                      "executing", "awaitModel"}
          /\ (loop.pc = "nextCall" /\ loop.callIdx > loop.toolCalls) =>
                loop'.pc = "awaitModel"
         ]_vars
    /\ InToolRound ~> (loop.pc = "awaitModel")
    /\ (loop.pc = "awaitModel") ~> (loop.pc = "returned" \/ InToolRound)

\* a turn that ended with a final reply after the model had requested
\* tool calls in MaxRounds rounds or more
C33_Witness ==
    /\ loop.pc = "returned"
    /\ loop.ended = "final"
    /\ loop.rounds = MaxRounds

(***************************************************************************)
(* Properties of the slash commands, checked under Spec.                   *)
(***************************************************************************)
\* the step is a slash command: the session is idle before and after it
\* (a user input or a web search starts a turn)
SlashCommandStep == pc = "idle" /\ pc' = "idle"

\* C34: /clear resets the conversation to the one system message and
\* leaves the allowlist, dangerousEnabled and autoAllowReads unchanged;
\* /allow-dangerous sets dangerousEnabled and leaves the conversation, the
\* allowlist and autoAllowReads unchanged; /show-permissions changes
\* nothing. No slash command changes anything else.
C34_SlashCommandsChangeOnlyTheirPart ==
    [][SlashCommandStep =>
          /\ \/ /\ messages' = <<SystemMessage>>
                /\ UNCHANGED pmVars
             \/ /\ dangerousEnabled' = TRUE
                /\ UNCHANGED <<messages, alwaysAllow, autoAllowReads>>
          /\ UNCHANGED <<approved, pmLast, turnKind, toolCalls, callIdx,
                         turns, calls, preTurn, roundBase, roundLog,
                         unitVars>>
      ]_vars

\* the session after a turn that approved a command for the session,
\* /allow-dangerous and /clear: one system message, the allowlist and the
\* flag kept
C34_Witness ==
    /\ pc = "idle"
    /\ turns > 0
    /\ messages = <<SystemMessage>>
    /\ alwaysAllow # {}
    /\ dangerousEnabled

(***************************************************************************)
(* Properties of the length of a search, checked under SpecSearchAny.      *)
(***************************************************************************)
\* the index of the key that was current when the search made its first
\* attempt
FirstKeyTried == search.tried[1].key

\* the keys from the one current at the start of the search to the last
KeysLeftAtStart == search.keyCount - FirstKeyTried

\* a cancelled context is seen at the top of the next round: the search
\* returns without another attempt
CancelEndsSearch ==
    [][(search.pc = "attempt" /\ search.cancelled /\ search.keyCount > 1)
          => /\ search'.pc = "returned"
             /\ search'.err = "search cancelled"
             /\ search'.tried = search.tried
      ]_vars

SearchReturns == (search.pc = "attempt") ~> (search.pc = "returned")

\* C35 as stated: the attempts of one call are at most the keys from the
\* current index to the last key
C35_Original ==
    /\ [](search.tried # <<>> =>
             /\ Len(search.tried) <= KeysLeftAtStart
             /\ search.client = "TavilyClient" =>
                    Len(search.tried) <= MaxRetryAttempts)
    /\ CancelEndsSearch
    /\ SearchReturns

\* C35: every call of searchWithRetry returns. With at most one key
\* configured (none included) it makes exactly one attempt; otherwise its
\* attempts are at most the keys from the current index to the last key,
\* and in the context-aware version also at most MaxRetryAttempts; a
\* cancelled context ends the call before the next attempt.
C35_SearchEndsWithinItsKeys ==
    /\ [](search.tried # <<>> =>
             /\ search.keyCount <= 1 => Len(search.tried) = 1
             /\ search.keyCount > 1 =>
                    Len(search.tried) <= KeysLeftAtStart
             /\ search.client = "TavilyClient" =>
                    Len(search.tried) <= MaxRetryAttempts)
    /\ CancelEndsSearch
    /\ SearchReturns

\* a BraveClient search that tried each of six keys once, more attempts
\* than MaxRetryAttempts, and returned when no key was left
C35_Witness ==
    /\ search.client = "BraveClient"
    /\ search.pc = "returned"
    /\ search.keyCount = 6
    /\ Len(search.tried) = 6
    /\ search.err = "no more API keys available"

(***************************************************************************)
(* Properties of the key rotators of a Config, checked under SpecConfig.   *)
(***************************************************************************)
\* the rotator has no key after the current one
AtLastKey(kr) == Len(kr.keys) <= 1 \/ kr.currentIdx + 1 >= Len(kr.keys)

\* C36: once the Config is validated the key index of a provider never
\* decreases and never wraps: a call that rotates the provider's key moves
\* the index forward by one when a later key exists, and otherwise (the
\* index is at the last key, or there is at most one key) returns
\* ErrNoAvailableKeys and leaves the index, the current key and the legacy
\* fields as they were; a call for another provider leaves the rotator
\* alone.
C36_RotationIsOneWay ==
    [][config.pc = "validated" =>
          \A p \in Providers :
              LET before == config.rotators[p]
                  after == config'.rotators[p]
              IN  /\ after.keys = before.keys
                  /\ after.currentIdx >= before.currentIdx
                  /\ config'.last.provider # p =>
                        /\ after = before
                        /\ config'.legacy[p] = config.legacy[p]
                  /\ (config'.last.provider = p /\ AtLastKey(before)) =>
                        /\ config'.last.err = ErrNoAvailableKeys
                        /\ after = before
                        /\ config'.legacy[p] = config.legacy[p]
                  /\ (config'.last.provider = p /\ ~AtLastKey(before)) =>
                        /\ config'.last.err = ""
                        /\ after.currentIdx = before.currentIdx + 1
                        /\ after.currentKey = before.keys[after.currentIdx + 1]
      ]_vars

\* the Tavily rotator stands at the second of two keys and the last call,
\* made through the search client, failed with ErrNoAvailableKeys
C36_Witness ==
    /\ config.pc = "validated"
    /\ config.rotators["tavily"].keys = <<"a", "b">>
    /\ config.rotators["tavily"].currentIdx = 1
    /\ config.rotators["tavily"].currentKey = "b"
    /\ config.last.op = "rotateKey"
    /\ config.last.provider = "tavily"
    /\ config.last.err = ErrNoAvailableKeys

\* Validate reached the key rotators
RotatorsLoaded == config.pc # "new" /\ config.err # ErrEndpointNotFound

\* C38: after Validate and after any sequence of RotateTavilyKey,
\* RotateLinkupKey and RotateBraveKey calls, for each provider with at
\* least one key the current index is within the keys, the rotator's
\* current key is the key at the current index, and the legacy fields
\* (APIKey, APIKeys, CurrentKeyIdx) equal the rotator's current key, keys
\* and index.
C38_RotatorAndLegacyFieldsAgree ==
    RotatorsLoaded =>
        \A p \in Providers :
            LET kr == config.rotators[p]
            IN  HasKeys(kr) =>
                   /\ kr.currentIdx \in 0..(Len(kr.keys) - 1)
                   /\ kr.currentKey = kr.keys[kr.currentIdx + 1]
                   /\ config.legacy[p].APIKey = kr.currentKey
                   /\ config.legacy[p].APIKeys = kr.keys
                   /\ config.legacy[p].CurrentKeyIdx = kr.currentIdx

\* the Brave key was rotated from "b" to "a" by RotateBraveKey: the
\* rotator and the legacy fields show the second key
C38_Witness ==
    /\ config.pc = "validated"
    /\ config.last = [op |-> "Rotate", provider |-> "brave", key |-> "a",
                      err |-> "", callback |-> <<>>]
    /\ config.rotators["brave"] =
           [keys |-> <<"b", "a">>, currentIdx |-> 1, currentKey |-> "a"]
    /\ config.legacy["brave"] =
           [APIKey |-> "a", APIKeys |-> <<"b", "a">>, CurrentKeyIdx |-> 1]

(***************************************************************************)
(* Properties of the Spinner, checked under SpecSpinner.                   *)
(***************************************************************************)
\* the step is the return of a Stop call of the goroutine t
StopReturns(t) ==
    spinner.pc[t] \in {"sRead", "sWait"} /\ spinner'.pc[t] = "idle"

\* the step belongs to an UpdateMessage call of the goroutine t that began
\* after a Stop call had returned
UpdatesAfterStop(t) ==
    /\ spinner.pc[t] \in {"uRead", "uWrite"}
    /\ spinner'.pc[t] # spinner.pc[t]
    /\ spinner.afterStop[t]

\* C37: across any number and interleaving of Stop calls the stop channel
\* is closed at most once and never closed twice, the ticker goroutine has
\* exited when the first Stop call returns, and an UpdateMessage call made
\* after a Stop returned changes neither the message nor what the spinner
\* shows.
C37_StopIsIdempotentAndComplete ==
    /\ [](spinner.closes <= 1 /\ ~spinner.panicked)
    /\ [][\A t \in SpinnerCallers :
             /\ (StopReturns(t) /\ ~spinner.stopReturned) =>
                   /\ spinner'.stopChan = "closed"
                   /\ spinner'.ticker = "exited"
             /\ UpdatesAfterStop(t) =>
                   /\ spinner'.message = spinner.message
                   /\ spinner'.shown = spinner.shown
         ]_vars

=============================================================================
